---- MODULE Spec2Model ----
(***************************************************************************)
(* Model of the Aqua / data-accounting external verifier.                  *)
(*                                                                         *)
(*   - src/dist/index.js : AquaVerifier (schema v1.2): verifyRevision,     *)
(*     verifyAquaChain and their helpers.                                  *)
(*   - src/index.js      : the legacy MediaWiki verifier (verifyPage).     *)
(*   - src/notarize.js   : the chain builder (AquaTree).                   *)
(*                                                                         *)
(* Strings are sequences of tokens, so that JavaScript's string            *)
(* concatenation is \o.  SHA3-512 is modelled as a collision-free          *)
(* function of the hashed string: the string between two bracket tokens.   *)
(***************************************************************************)
EXTENDS Naturals, Sequences, FiniteSets, TLC

VARIABLES
    \* ---- AquaVerifier (src/dist/index.js) ----
    chain,            \* aquaChain.revisions in insertion order: Seq of revisions
    ledger,           \* what provider.getTransaction returns for the witness tx
    pc,               \* position of verifyAquaChain
    j,                \* loop index of the first loop of verifyAquaChain
    revisionResults,  \* hashChainResult.revisionResults
    chainSuccessful,  \* hashChainResult.successful
    history           \* what was done to the chain since it was last verified

VARIABLES
    \* ---- legacy verifier (src/index.js) ----
    page,                      \* what the MediaWiki server holds for the page
    lpc,                       \* position of verifyPage
    idx,                       \* loop index of verifyPage
    count,                     \* revisions found correct so far
    details,                   \* details.revision_details
    previousVerificationHash,
    previousRevId,
    status,                    \* the status verifyPage returns
    request                    \* the title given, and what the first fetch did

VARIABLES
    \* ---- notarize (src/notarize.js) ----
    disk,              \* the aqua files: file name -> aqua object, or no file
    mem,               \* aquaTree.aquaObject of the running (or last) process
    lastRevisionHash,  \* aquaTree.lastRevisionHash
    npc,               \* "idle", or "await": createNewRevision is suspended
    pending,           \* the arguments of the suspended createNewRevision
    genesisCreated,    \* history: createGenesisRevision appended its revision
    nhist              \* history: the last run, and the aqua files before it

VARIABLES
    \* ---- AquaVerifier, the class (src/dist/index.js) ----
    options,           \* this.options
    call               \* the last method call: its input and what came of it

VARIABLES
    \* ---- two runs of the builder (src/notarize.js) ----
    runs               \* what each run was given and the revision it made

VARIABLES
    \* ---- doSignMetamask (src/notarize.js) ----
    mpc,               \* position of doSignMetamask
    attempts,          \* its counter of the polls that held no signature
    server,            \* the local HTTP server: "none", "listening", "closed"
    posted,            \* what the page has POSTed to the server
    polled,            \* `content`: the body of the last answer of /result
    polls,             \* history: the polls of /result that were answered
    signatureReturned  \* the signature doSignMetamask returned

varsV == <<chain, ledger, pc, j, revisionResults, chainSuccessful, history>>

varsN == <<disk, mem, lastRevisionHash, npc, pending, genesisCreated, nhist>>

varsL == <<page, lpc, idx, count, details, previousVerificationHash,
           previousRevId, status, request>>

varsA == <<options, call>>

varsD == <<runs>>

varsM == <<mpc, attempts, server, posted, polled, polls, signatureReturned>>

vars == <<varsV, varsL, varsN, varsA, varsD, varsM>>

\* What the actions of one program leave alone: the other programs.
othersV == <<varsL, varsN, varsA, varsD, varsM>>
othersL == <<varsV, varsN, varsA, varsD, varsM>>
othersN == <<varsV, varsL, varsA, varsD, varsM>>
othersA == <<varsV, varsL, varsN, varsD, varsM>>
othersD == <<varsV, varsL, varsN, varsA, varsM>>
othersM == <<varsV, varsL, varsN, varsA, varsD>>

-----------------------------------------------------------------------------
(* Strings and hashes                                                      *)

NULL == <<"null">>          \* JavaScript null / undefined (prints as "null")
EMPTY == <<>>               \* the empty string ""

\* js-sha3 sha3_512: a collision-free function of its input.
sha3_512(content) == <<"[">> \o content \o <<"]">>

\* `content === "" ? "" : sha3_512(content)`
getHashSum(content) == IF content = EMPTY THEN EMPTY ELSE sha3_512(content)

\* String.prototype.toLowerCase on the tokens that have an upper case form.
toLowerCaseTok(t) ==
    CASE t = "W1" -> "w1"
      [] t = "W2" -> "w2"
      [] OTHER -> t

toLowerCase(s) == [i \in DOMAIN s |-> toLowerCaseTok(s[i])]

\* Buffer.from(b64, "base64"): decodes the base64 digits, skips anything else.
RECURSIVE base64Decode(_)
base64Decode(b64) ==
    IF b64 = EMPTY THEN EMPTY
    ELSE LET t == Head(b64)
             d == CASE t = "YQ==" -> <<"a">>
                    [] t = "Yg==" -> <<"b">>
                    [] OTHER -> EMPTY
         IN d \o base64Decode(Tail(b64))

generateHashFromBase64(b64) == sha3_512(base64Decode(b64))

\* `x ?? ""`
orEmpty(x) == IF x = NULL THEN EMPTY ELSE x

-----------------------------------------------------------------------------
(* src/dist/index.js: the witness transaction (updated_check_etherscan.ts) *)

SupportedNetworks == {<<"mainnet">>, <<"holesky">>, <<"sepolia">>}   \* networkRpcMap
functionSelector == "0x9cef4ea1"
ALCHEMY == <<"alchemy-key">>

\* provider.getTransaction(txHash) on the RPC endpoint of `network`; `led` maps
\* the hashes of the transactions that exist to what the provider returns:
\* [kind |-> "found", selector, arg], "notfound" (null) or "error" (it throws).
\* tx.data is modelled as its first 10 characters (selector) and the 128
\* characters that follow them (arg).  The key is the end of the URL: the
\* endpoint answers no request made with another key.
getTransaction(network, txHash, alchemyKey, led) ==
    IF network \notin SupportedNetworks \/ alchemyKey # ALCHEMY
    THEN [kind |-> "error", selector |-> "", arg |-> EMPTY]
    ELSE IF txHash \in DOMAIN led THEN led[txHash]
    ELSE [kind |-> "notfound", selector |-> "", arg |-> EMPTY]

checkTransaction(network, txHash, expectedVerificationHash, alchemyKey, led) ==
    LET tx == getTransaction(network, txHash, alchemyKey, led)
        hashMatches ==
            toLowerCase(tx.arg) = toLowerCase(expectedVerificationHash)
    IN  IF tx.kind = "error"
        THEN [verificationHashMatches |-> FALSE, successful |-> FALSE,
              message |-> <<"An error occurred">>]
        ELSE IF tx.kind = "notfound"
        THEN [verificationHashMatches |-> FALSE, successful |-> FALSE,
              message |-> <<"Transaction not found">>]
        ELSE IF tx.selector = functionSelector
        THEN [verificationHashMatches |-> hashMatches, successful |-> hashMatches,
              message |-> IF hashMatches
                          THEN <<"Verification hash matches">>
                          ELSE <<"Verification hash does not match">>]
        ELSE [verificationHashMatches |-> FALSE, successful |-> FALSE,
              message |-> <<"Transaction data does not contain expected function selector">>]

-----------------------------------------------------------------------------
(* src/dist/index.js: v1_2/utils.ts                                        *)

\* `data.content.file_hash || null`: null, undefined and "" all give null.
verifyFileUtil(rev) ==
    LET fileContentHash ==
            IF rev.file_hash = NULL \/ rev.file_hash = EMPTY THEN NULL
            ELSE rev.file_hash
        hashFromb64 == generateHashFromBase64(orEmpty(rev.file_data))
    IN  IF fileContentHash = NULL
        THEN [ok |-> FALSE,
              error_message |-> <<"Revision contains a file, but no file content hash">>]
        ELSE IF fileContentHash # hashFromb64
        THEN [ok |-> FALSE, error_message |-> <<"File content hash does not match">>]
        ELSE [ok |-> TRUE, error_message |-> NULL]

\* Object.values(data.content): the slot `main`, then `file_hash` when the
\* property exists.
contentSlots(rev) ==
    IF rev.file_hash = NULL THEN <<rev.content_main>>
    ELSE <<rev.content_main, rev.file_hash>>

RECURSIVE concatAll(_)
concatAll(slots) ==
    IF slots = <<>> THEN EMPTY ELSE Head(slots) \o concatAll(Tail(slots))

verifyContentUtil(rev) ==
    LET contentHash == getHashSum(concatAll(contentSlots(rev)))
    IN  IF contentHash = rev.content_hash
        THEN [ok |-> TRUE, message |-> contentHash]
        ELSE [ok |-> FALSE, message |-> <<"Content hash does not match">>]

calculateMetadataHash(domainId, timestamp, prevVerificationHash, mergeHash) ==
    getHashSum(domainId \o timestamp \o prevVerificationHash \o mergeHash)

verifyMetadataUtil(rev) ==
    LET metadataHash ==
            calculateMetadataHash(rev.domain_id, rev.time_stamp,
                                  orEmpty(rev.previous_verification_hash),
                                  orEmpty(rev.merge_hash))
    IN  IF metadataHash = rev.metadata_hash
        THEN [ok |-> TRUE, message |-> metadataHash]
        ELSE [ok |-> FALSE, message |-> <<"Metadata hash does not match">>]

\* ethers.hashMessage: the EIP-191 digest of the message.
hashMessage(message) == <<"eip191">> \o message

\* A signature over `message` by the key of wallet `w` (a token).
Sign(w, message) == <<"sig", w>> \o hashMessage(message)

\* ethers.recoverAddress(digest, signature): NULL stands for "it throws" (the
\* signature is not a signature); a signature made over another digest
\* recovers an address no one declared.
recoverAddress(digest, signature) ==
    IF signature = NULL \/ Len(signature) < 2 \/ signature[1] # "sig" THEN NULL
    ELSE IF SubSeq(signature, 3, Len(signature)) = digest THEN <<signature[2]>>
    ELSE <<"Wx">>

paddedMessageV12(verificationHash) ==
    <<"I sign the following page verification_hash: [0x">> \o verificationHash \o <<"]">>

verifySignatureUtil(rev, verificationHash) ==
    IF verificationHash = EMPTY
    THEN [ok |-> FALSE, message |-> <<"Verification hash must not be empty">>]
    ELSE LET recoveredAddress ==
                 recoverAddress(hashMessage(paddedMessageV12(verificationHash)),
                                rev.signature)
         IN  IF recoveredAddress = NULL
             THEN [ok |-> FALSE, message |-> <<"An error occured retrieving signature">>]
             ELSE IF toLowerCase(recoveredAddress) = toLowerCase(rev.wallet_address)
             THEN [ok |-> TRUE, message |-> <<"Signature is Valid">>]
             ELSE [ok |-> FALSE, message |-> <<"Signature is invalid">>]

\* `!x`: null, undefined and "" are falsy.
falsy(x) == x = NULL \/ x = EMPTY

\* The loop of verifyMerkleIntegrity from node k on.
RECURSIVE merkleLoop(_, _, _, _)
merkleLoop(merkleBranch, verificationHash, k, prevSuccessor) ==
    IF k > Len(merkleBranch) THEN TRUE
    ELSE LET node == merkleBranch[k]
             leaves == {node.left_leaf, node.right_leaf}
             expected == IF ~falsy(prevSuccessor) THEN prevSuccessor
                         ELSE verificationHash
             calculatedSuccessor ==
                 IF falsy(node.left_leaf) THEN node.right_leaf
                 ELSE IF falsy(node.right_leaf) THEN node.left_leaf
                 ELSE getHashSum(node.left_leaf \o node.right_leaf)
         IN  IF expected \notin leaves THEN FALSE
             ELSE IF calculatedSuccessor # node.successor THEN FALSE
             ELSE merkleLoop(merkleBranch, verificationHash, k + 1, node.successor)

verifyMerkleIntegrity(merkleBranch, verificationHash) ==
    IF Len(merkleBranch) = 0 THEN FALSE
    ELSE merkleLoop(merkleBranch, verificationHash, 1, NULL)

\* String.prototype.startsWith("0x") ? h : "0x" + h
with0x(h) == IF Len(h) > 0 /\ h[1] = "0x" THEN h ELSE <<"0x">> \o h

\* verifyWitnessUtil: [thrown, ok, message].  It throws when the transaction
\* hash is missing (startsWith of undefined) and when the proof it has to
\* traverse is missing (length of undefined).
verifyWitnessUtil(rev, verification_hash, doVerifyMerkleProof, alchemyKey, led) ==
    LET actual == getHashSum(rev.domain_snapshot_genesis_hash \o rev.merkle_root)
        etherScanResult ==
            checkTransaction(rev.witness_network,
                             with0x(rev.witness_event_transaction_hash),
                             actual, alchemyKey, led)
        thrown == [thrown |-> TRUE, ok |-> FALSE, message |-> EMPTY]
    IN  IF rev.witness_event_transaction_hash = NULL THEN thrown
        ELSE IF actual # rev.witness_event_verification_hash
        THEN [thrown |-> FALSE, ok |-> FALSE,
              message |-> <<"Verification hashes do not match">>]
        ELSE IF doVerifyMerkleProof
        THEN IF verification_hash = rev.domain_snapshot_genesis_hash
             THEN [thrown |-> FALSE, ok |-> TRUE,
                   message |-> <<"Verification hash is the same us domain snapshot genesis hash">>]
             ELSE IF ~rev.has_proof THEN thrown
             ELSE LET merkleProofIsOK ==
                          verifyMerkleIntegrity(rev.structured_merkle_proof,
                                                verification_hash)
                  IN  [thrown |-> FALSE, ok |-> merkleProofIsOK,
                       message |-> IF merkleProofIsOK
                                   THEN <<"Merkle proof is OK">>
                                   ELSE <<"Error verifying merkle proof">>]
        ELSE [thrown |-> FALSE, ok |-> etherScanResult.successful,
              message |-> etherScanResult.message]

-----------------------------------------------------------------------------
(* src/dist/index.js: v1_2/v1_2.ts                                         *)

defaultResultStatus == [status |-> "MISSING", successful |-> FALSE, message |-> EMPTY]

available(ok, message) == [status |-> "AVAILABLE", successful |-> ok, message |-> message]

\* The loop over Object.values(revisionResult), from entry i on, with its
\* break.  (The first value, the boolean `successful`, has no status and is
\* skipped by the test; `values` holds the five sub-results that follow it.)
RECURSIVE allSuccessfulLoop(_, _)
allSuccessfulLoop(values, i) ==
    IF i > Len(values) THEN TRUE
    ELSE IF values[i].status = "AVAILABLE" /\ ~values[i].successful THEN FALSE
    ELSE allSuccessfulLoop(values, i + 1)

\* (mutant) the loop stops one entry early and never sees the last sub-result.
allSuccessful_skipsLast(values) ==
    allSuccessfulLoop(SubSeq(values, 1, Len(values) - 1), 1)

allSuccessful(values) == allSuccessfulLoop(values, 1)

fileVerification(rev) ==
    LET r == verifyFileUtil(rev) IN available(r.ok, orEmpty(r.error_message))

contentVerification(rev) ==
    LET r == verifyContentUtil(rev) IN available(r.ok, r.message)

metadataVerification(rev) ==
    LET r == verifyMetadataUtil(rev) IN available(r.ok, r.message)

signatureVerification(rev) ==
    IF rev.has_signature
    THEN LET r == verifySignatureUtil(rev, orEmpty(rev.previous_verification_hash))
         IN  available(r.ok, r.message)
    ELSE defaultResultStatus

\* The try block: an exception (also one raised while evaluating the argument
\* structured_merkle_proof.length) leaves the sub-result as it was.
witnessVerification(rev, alchemyKey, led) ==
    IF rev.has_witness
    THEN IF ~rev.has_proof THEN defaultResultStatus
         ELSE LET r == verifyWitnessUtil(rev, orEmpty(rev.previous_verification_hash),
                                         Len(rev.structured_merkle_proof) > 1,
                                         alchemyKey, led)
              IN  IF r.thrown THEN defaultResultStatus
                  ELSE available(r.ok, r.message)
    ELSE defaultResultStatus

verifyRevision(rev, alchemyKey, led) ==
    LET f == fileVerification(rev)
        c == contentVerification(rev)
        w == witnessVerification(rev, alchemyKey, led)
        s == signatureVerification(rev)
        m == metadataVerification(rev)
    IN  [successful |-> allSuccessful(<<f, c, w, s, m>>),
         file_verification |-> f,
         content_verification |-> c,
         witness_verification |-> w,
         signature_verification |-> s,
         metadata_verification |-> m]

\* The second loop of verifyAquaChain, from result i on, with its break.
RECURSIVE chainSuccessfulLoop(_, _)
chainSuccessfulLoop(results, i) ==
    IF i > Len(results) THEN TRUE
    ELSE IF ~results[i].successful THEN FALSE
    ELSE chainSuccessfulLoop(results, i + 1)

\* (mutant) the loop starts at the second result.
hashChainSuccessful_skipsFirst(results) == chainSuccessfulLoop(results, 2)

\* hashChainResult.successful after the second loop.
hashChainSuccessful(results) == chainSuccessfulLoop(results, 1)

-----------------------------------------------------------------------------
(* src/index.js: the hashes of schema v1.2, by which the chains given to   *)
(* the verifier are keyed                                                  *)

calculateSignatureHash(signature, publicKey) == getHashSum(signature \o publicKey)

calculateWitnessHash(domain_manifest_verification_hash, merkle_root, witness_network, witness_tx_hash) ==
    getHashSum(domain_manifest_verification_hash \o merkle_root
               \o witness_network \o witness_tx_hash)

calculateVerificationHash(contentHash, metadataHash, signature_hash, witness_hash) ==
    getHashSum(contentHash \o metadataHash \o signature_hash \o witness_hash)

-----------------------------------------------------------------------------
(* The chains given to AquaVerifier.verifyAquaChain                        *)

MaxRev == 4          \* longest chain of the chain specification
MaxTamperRev == 2    \* longest chain of the tamper specification

G == <<"[", "g", "]">>          \* a domain snapshot genesis hash
S1 == <<"[", "s1", "]">>        \* sibling hashes of a Merkle proof
S2 == <<"[", "s2", "]">>
OtherRoot == <<"[", "r", "]">>
OtherHash == <<"[", "o", "]">>

\* The successor of two leaves, as the traversal computes it.
successorOf(l, r) ==
    IF falsy(l) THEN r ELSE IF falsy(r) THEN l ELSE getHashSum(l \o r)

merkleNode(l, r) == [left_leaf |-> l, right_leaf |-> r, successor |-> successorOf(l, r)]

signatureHashOf(rev) ==
    IF rev.has_signature THEN calculateSignatureHash(rev.signature, rev.public_key)
    ELSE EMPTY

witnessHashOf(rev) ==
    IF rev.has_witness
    THEN calculateWitnessHash(rev.witness_event_verification_hash, rev.merkle_root,
                              rev.witness_network, rev.witness_event_transaction_hash)
    ELSE EMPTY

\* The verification hash of schema v1.2 of the i-th revision of ch: content
\* hash, metadata hash, and the signature and witness of its predecessor.
expectedKey(ch, i) ==
    calculateVerificationHash(
        ch[i].content_hash, ch[i].metadata_hash,
        IF i = 1 THEN EMPTY ELSE signatureHashOf(ch[i - 1]),
        IF i = 1 THEN EMPTY ELSE witnessHashOf(ch[i - 1]))

\* A revision as an exporter of schema v1.2 writes it after the chain ch.
\* opt chooses what it carries: a file, a signature (valid or not a
\* signature), a witness (a proof of one node, of two nodes ending at the
\* Merkle root or elsewhere, or no proof) and the parent it names.
MakeRevision(ch, opt) ==
    LET n == Len(ch)
        tip == IF n = 0 THEN EMPTY ELSE ch[n].key
        prev == IF opt.link = "tip" THEN tip ELSE OtherHash
        file_data == IF opt.file THEN <<"YQ==">> ELSE NULL
        file_hash == IF opt.file THEN generateHashFromBase64(file_data) ELSE NULL
        content_main == <<"a">>
        content_hash ==
            getHashSum(content_main \o (IF opt.file THEN file_hash ELSE EMPTY))
        domain_id == <<"d">>
        time_stamp == <<"t", ToString(n + 1)>>
        metadata_hash == calculateMetadataHash(domain_id, time_stamp, prev, EMPTY)
        node1 == merkleNode(prev, S1)
        node2 == merkleNode(node1.successor, S2)
        proof == CASE opt.wit = "short" -> <<node1>>
                   [] opt.wit \in {"long", "longBadEnd"} -> <<node1, node2>>
                   [] OTHER -> <<>>
        root == CASE opt.wit = "short" -> node1.successor
                  [] opt.wit = "long" -> node2.successor
                  [] OTHER -> OtherRoot
        body == [key |-> EMPTY,
                 file_hash |-> file_hash, file_data |-> file_data,
                 content_main |-> content_main, content_hash |-> content_hash,
                 domain_id |-> domain_id, time_stamp |-> time_stamp,
                 previous_verification_hash |-> prev, merge_hash |-> NULL,
                 metadata_hash |-> metadata_hash,
                 has_signature |-> opt.sig # "none",
                 signature |-> CASE opt.sig = "valid" -> Sign("W1", paddedMessageV12(prev))
                                 [] opt.sig = "malformed" -> <<"garbage">>
                                 [] OTHER -> NULL,
                 wallet_address |-> IF opt.sig = "none" THEN NULL ELSE <<"w1">>,
                 public_key |-> IF opt.sig = "none" THEN NULL ELSE <<"pk1">>,
                 has_witness |-> opt.wit # "none",
                 domain_snapshot_genesis_hash |-> IF opt.wit = "none" THEN NULL ELSE G,
                 merkle_root |-> IF opt.wit = "none" THEN NULL ELSE root,
                 witness_event_transaction_hash |->
                     IF opt.wit = "none" THEN NULL ELSE <<"t", ToString(n + 1)>>,
                 witness_network |-> IF opt.wit = "none" THEN NULL ELSE <<"sepolia">>,
                 witness_event_verification_hash |->
                     IF opt.wit = "none" THEN NULL ELSE getHashSum(G \o root),
                 has_proof |-> opt.wit \in {"short", "long", "longBadEnd"},
                 structured_merkle_proof |-> proof]
    IN  [body EXCEPT !.key = expectedKey(Append(ch, body), n + 1)]

\* What the ledger holds for the witness transaction of a revision.
MakeTransaction(rev, led) ==
    CASE led = "match" ->
             [kind |-> "found", selector |-> functionSelector,
              arg |-> rev.witness_event_verification_hash]
      [] led = "wrongSelector" ->
             [kind |-> "found", selector |-> "0xa9059cbb",
              arg |-> rev.witness_event_verification_hash]
      [] led = "wrongArg" ->
             [kind |-> "found", selector |-> functionSelector, arg |-> OtherHash]
      [] OTHER -> [kind |-> "error", selector |-> "", arg |-> EMPTY]

Opt(file, sig, wit, led, link) ==
    [file |-> file, sig |-> sig, wit |-> wit, led |-> led, link |-> link]

\* The revisions of the chain specification.
ChainKinds ==
    { Opt(TRUE, "none", "none", "none", "tip"),
      Opt(FALSE, "none", "none", "none", "tip"),
      Opt(TRUE, "valid", "none", "none", "tip"),
      Opt(TRUE, "none", "none", "none", "other") }

\* The revisions of the tamper specification.
AllKinds ==
    ChainKinds \cup
    { Opt(TRUE, "malformed", "none", "none", "tip"),
      Opt(TRUE, "valid", "none", "none", "other"),
      Opt(TRUE, "none", "short", "match", "tip"),
      Opt(TRUE, "none", "short", "wrongSelector", "tip"),
      Opt(TRUE, "none", "short", "notfound", "tip"),
      Opt(TRUE, "none", "long", "match", "tip"),
      Opt(TRUE, "none", "long", "wrongSelector", "tip"),
      Opt(TRUE, "none", "long", "wrongArg", "tip"),
      Opt(TRUE, "none", "long", "notfound", "tip"),
      Opt(TRUE, "none", "long", "error", "tip"),
      Opt(TRUE, "none", "longBadEnd", "match", "tip"),
      Opt(TRUE, "none", "noproof", "match", "tip"),
      Opt(TRUE, "valid", "long", "match", "other") }

Keys(ch) == {ch[i].key : i \in DOMAIN ch}

-----------------------------------------------------------------------------
(* AquaVerifier.verifyAquaChain as a state machine                         *)

NoHistory == [op |-> "none", before |-> FALSE, index |-> 0, field |-> ""]

InitV ==
    /\ chain = <<>>
    /\ ledger = <<>>
    /\ pc = "input"
    /\ j = 0
    /\ revisionResults = <<>>
    /\ chainSuccessful = TRUE
    /\ history = NoHistory

\* The caller's aqua chain gets one more revision (and the ledger the
\* transaction of its witness, if it has one and the transaction exists).
AddRevision(kinds, maxLen) ==
    /\ pc = "input"
    /\ Len(chain) < maxLen
    /\ \E opt \in kinds :
         LET rev == MakeRevision(chain, opt)
         IN  /\ rev.key \notin Keys(chain)
             /\ chain' = Append(chain, rev)
             /\ ledger' = IF opt.wit = "none" \/ opt.led = "notfound" THEN ledger
                          ELSE (with0x(rev.witness_event_transaction_hash)
                                    :> MakeTransaction(rev, opt.led)) @@ ledger
    /\ UNCHANGED <<pc, j, revisionResults, chainSuccessful, history>>
    /\ UNCHANGED othersV

AddChainRevision == AddRevision(ChainKinds, MaxRev)

AddAnyRevision == AddRevision(AllKinds, MaxTamperRev)

\* AquaVerifier.verifyAquaChain(hashChain) with an Alchemy key and version
\* 1.2: verifyAquaChain starts with an empty result.
CallVerifyAquaChain ==
    /\ pc \in {"input", "ready"}
    /\ pc' = "loop"
    /\ j' = 0
    /\ revisionResults' = <<>>
    /\ chainSuccessful' = TRUE
    /\ UNCHANGED <<chain, ledger, history>>
    /\ UNCHANGED othersV

\* One iteration of the first loop: await verifyRevision, push its result.
VerifyNextRevision ==
    /\ pc = "loop"
    /\ j < Len(chain)
    /\ revisionResults' =
           Append(revisionResults, verifyRevision(chain[j + 1], ALCHEMY, ledger))
    /\ j' = j + 1
    /\ UNCHANGED <<chain, ledger, pc, chainSuccessful, history>>
    /\ UNCHANGED othersV

\* The second loop and the return.
AggregateResults ==
    /\ pc = "loop"
    /\ j = Len(chain)
    /\ chainSuccessful' = hashChainSuccessful(revisionResults)
    /\ pc' = "done"
    /\ UNCHANGED <<chain, ledger, j, revisionResults, history>>
    /\ UNCHANGED othersV

\* The fields of a revision that hold a value.
TamperFields(rev) ==
    {"key", "content_main", "content_hash", "domain_id", "time_stamp",
     "previous_verification_hash", "merge_hash", "metadata_hash"}
    \cup (IF rev.file_hash # NULL THEN {"file_hash", "file_data"} ELSE {})
    \cup (IF rev.has_signature THEN {"signature", "wallet_address", "public_key"}
          ELSE {})
    \cup (IF rev.has_witness
          THEN {"domain_snapshot_genesis_hash", "merkle_root",
                "witness_event_transaction_hash", "witness_network",
                "witness_event_verification_hash"}
          ELSE {})

TamperValues == {<<"x">>}

\* Someone changes the value of one field of one revision of a chain that
\* has been verified (or the key it is stored under); the chain is then
\* verified again.
Tamper ==
    /\ pc = "done"
    /\ history.op = "none"
    /\ \E i \in DOMAIN chain : \E f \in TamperFields(chain[i]) : \E v \in TamperValues :
         /\ v # chain[i][f]
         /\ f = "key" => v \notin Keys(chain)
         /\ chain' = [chain EXCEPT ![i][f] = v]
         /\ history' = [op |-> "tamper", before |-> chainSuccessful,
                        index |-> i, field |-> f]
    /\ pc' = "ready"
    /\ UNCHANGED <<ledger, j, revisionResults, chainSuccessful>>
    /\ UNCHANGED othersV

\* Someone swaps the two middle revisions of a verified four-revision chain;
\* the chain is then verified again.
SwapMiddle ==
    /\ pc = "done"
    /\ history.op = "none"
    /\ Len(chain) = 4
    /\ chain' = <<chain[1], chain[3], chain[2], chain[4]>>
    /\ history' = [op |-> "swap", before |-> chainSuccessful, index |-> 2, field |-> ""]
    /\ pc' = "ready"
    /\ UNCHANGED <<ledger, j, revisionResults, chainSuccessful>>
    /\ UNCHANGED othersV

NextChain ==
    \/ AddChainRevision
    \/ CallVerifyAquaChain
    \/ VerifyNextRevision
    \/ AggregateResults
    \/ SwapMiddle

NextTamper ==
    \/ AddAnyRevision
    \/ CallVerifyAquaChain
    \/ VerifyNextRevision
    \/ AggregateResults
    \/ Tamper

-----------------------------------------------------------------------------
(* Claims about AquaVerifier (src/dist/index.js)                           *)

\* The results in revisionResults are those of the revisions of `chain`.
ResultsCurrent == pc \in {"loop", "done"}

\* P of revision i: "" for the first, else the key of the revision before it.
ThreadedP(ch, i) == IF i = 1 THEN EMPTY ELSE ch[i - 1].key

SubResults(r) ==
    {r.file_verification, r.content_verification, r.witness_verification,
     r.signature_verification, r.metadata_verification}

HasFailedSubResult(r) ==
    \E sub \in SubResults(r) : sub.status = "AVAILABLE" /\ ~sub.successful

\* C2: verifyAquaChain threads P through the revisions in insertion order
\* and a revision whose previous_verification_hash differs from P gets an
\* unsuccessful result; a verified four-revision chain whose two middle
\* revisions are swapped no longer verifies.
C2_LinkageThreaded ==
    ResultsCurrent =>
        /\ \A i \in DOMAIN revisionResults :
               orEmpty(chain[i].previous_verification_hash) # ThreadedP(chain, i)
                   => ~revisionResults[i].successful
        /\ (pc = "done" /\ history.op = "swap" /\ history.before) => ~chainSuccessful

\* C2, the swap scenario alone.
C2_SwapDetected ==
    (pc = "done" /\ history.op = "swap" /\ history.before) => ~chainSuccessful

\* C3: a revision whose recomputed verification hash differs from the key
\* it is stored under gets a failed sub-result.
C3_KeyCompared ==
    ResultsCurrent =>
        \A i \in DOMAIN revisionResults :
            expectedKey(chain, i) # chain[i].key => HasFailedSubResult(revisionResults[i])

\* C4: changing one field of one revision of a chain that verified, or the
\* key it is stored under, gives a chain that does not verify.
C4_TamperDetected ==
    (pc = "done" /\ history.op = "tamper" /\ history.before) => ~chainSuccessful

\* C5: the result of verifyRevision is successful iff every sub-result that
\* is not MISSING is successful.
C5_AggregateIff ==
    \A i \in DOMAIN revisionResults :
        revisionResults[i].successful <=>
            \A sub \in SubResults(revisionResults[i]) :
                sub.status # "MISSING" => sub.successful

\* C5 witness: a revision passes with a MISSING signature sub-result beside
\* available ones, and another revision fails on one sub-result only.
C5_Witness ==
    /\ pc = "done"
    /\ \E i \in DOMAIN revisionResults :
          /\ revisionResults[i].successful
          /\ revisionResults[i].signature_verification.status = "MISSING"
          /\ revisionResults[i].witness_verification.status = "AVAILABLE"
    /\ \E i \in DOMAIN revisionResults :
          /\ ~revisionResults[i].successful
          /\ ~revisionResults[i].metadata_verification.successful
          /\ revisionResults[i].file_verification.successful
          /\ revisionResults[i].content_verification.successful

\* C6: a sub-result is MISSING exactly when its field is absent from the
\* revision (file hash, signature, witness).
C6_MissingIffAbsent ==
    ResultsCurrent =>
        \A i \in DOMAIN revisionResults :
            /\ revisionResults[i].file_verification.status = "MISSING"
                   <=> falsy(chain[i].file_hash)
            /\ revisionResults[i].signature_verification.status = "MISSING"
                   <=> ~chain[i].has_signature
            /\ revisionResults[i].witness_verification.status = "MISSING"
                   <=> ~chain[i].has_witness

\* C6, the witness part alone: a witness that is present is never MISSING.
C6_WitnessNeverMissing ==
    ResultsCurrent =>
        \A i \in DOMAIN revisionResults :
            chain[i].has_witness =>
                revisionResults[i].witness_verification.status # "MISSING"

\* C7: verifyAquaChain returns successful = true iff the result of every
\* revision of the chain is successful.
C7_ChainIffAll ==
    pc = "done" =>
        /\ Len(revisionResults) = Len(chain)
        /\ chainSuccessful <=>
               \A i \in DOMAIN chain : revisionResults[i].successful

\* C7 witness: a chain whose first revision passes and whose last fails has
\* been verified, and the chain result is unsuccessful.
C7_Witness ==
    /\ pc = "done"
    /\ Len(chain) >= 3
    /\ revisionResults[1].successful
    /\ ~revisionResults[Len(chain)].successful
    /\ ~chainSuccessful

\* What the transaction oracle returns for the witness of rev is not a
\* transaction that starts with the selector followed by the expected root.
TransactionRejectable(rev, led) ==
    LET expected == getHashSum(rev.domain_snapshot_genesis_hash \o rev.merkle_root)
        tx == getTransaction(rev.witness_network,
                             with0x(rev.witness_event_transaction_hash), ALCHEMY, led)
    IN  \/ tx.kind # "found"
        \/ tx.selector # functionSelector
        \/ toLowerCase(tx.arg) # toLowerCase(expected)

\* C9: when the witness transaction does not start with 0x9cef4ea1, carries
\* another root or is not found, the witness sub-result is unsuccessful.
C9_SelectorChecked ==
    ResultsCurrent =>
        \A i \in DOMAIN revisionResults :
            (chain[i].has_witness /\ chain[i].witness_event_transaction_hash # NULL
             /\ TransactionRejectable(chain[i], ledger))
                => ~revisionResults[i].witness_verification.successful

\* C10: a Merkle proof is accepted only if the successor of its last node
\* is the witness Merkle root.
C10_ProofEndsAtRoot ==
    ResultsCurrent =>
        \A i \in DOMAIN revisionResults :
            LET rev == chain[i]
                proof == rev.structured_merkle_proof
            IN  (/\ rev.has_witness /\ rev.has_proof /\ Len(proof) > 1
                 /\ orEmpty(rev.previous_verification_hash) # rev.domain_snapshot_genesis_hash
                 /\ revisionResults[i].witness_verification.successful)
                    => proof[Len(proof)].successor = rev.merkle_root

-----------------------------------------------------------------------------
(* src/index.js: the legacy verifier                                       *)

legacy_calculateMetadataHash(domainId, timestamp, previousVerificationHash_) ==
    getHashSum(domainId \o timestamp \o previousVerificationHash_)

\* The loop of the legacy verifyMerkleIntegrity from node i on.
RECURSIVE legacy_merkleLoop(_, _, _, _)
legacy_merkleLoop(merkleBranch, verificationHash, i, prevSuccessor) ==
    IF i > Len(merkleBranch) THEN TRUE
    ELSE LET node == merkleBranch[i]
             leaves == {node.left_leaf, node.right_leaf}
             expected == IF ~falsy(prevSuccessor) THEN prevSuccessor
                         ELSE verificationHash
             calculatedSuccessor == getHashSum(node.left_leaf \o node.right_leaf)
         IN  IF expected \notin leaves THEN FALSE
             ELSE IF calculatedSuccessor # node.successor THEN FALSE
             ELSE legacy_merkleLoop(merkleBranch, verificationHash, i + 1,
                                    node.successor)

legacy_verifyMerkleIntegrity(merkleBranch, verificationHash) ==
    legacy_merkleLoop(merkleBranch, verificationHash, 1, NULL)

\* request_merkle_proof, then verifyMerkleIntegrity.
verifyWitnessMerkleProof(srv, verificationHash) ==
    IF ~srv.proof_ok THEN FALSE
    ELSE IF Len(srv.merkle_proof) = 0 THEN FALSE
    ELSE legacy_verifyMerkleIntegrity(srv.merkle_proof, verificationHash)

\* checkEtherScan.js: "true" when the transaction carries the selector and
\* the expected hash, "false" when it carries something else, else an error
\* code.
checkEtherScan(witness_network, txHash, expected, tx) ==
    IF witness_network \notin SupportedNetworks \/ tx.kind = "error" THEN "error"
    ELSE IF tx.kind = "notfound" THEN "Transaction hash not found"
    ELSE IF tx.selector = functionSelector
            /\ toLowerCase(tx.arg) = toLowerCase(expected) THEN "true"
    ELSE "false"

\* get_witness_data answers '{"value":""}' when there is no such event.
getWitnessHash(srv) ==
    IF srv.witness_event_id = NULL THEN EMPTY
    ELSE calculateWitnessHash(srv.witness_event_verification_hash, srv.merkle_root,
                              srv.witness_network, srv.witness_event_transaction_hash)

\* The status the legacy verifyWitness returns.  The result of the online
\* lookup (etherScanResult) only goes into the log.
legacy_verifyWitness(srv, verification_hash, doVerifyMerkleProof) ==
    LET actual == getHashSum(srv.domain_manifest_verification_hash \o srv.merkle_root)
        etherScanResult ==
            checkEtherScan(srv.witness_network, srv.witness_event_transaction_hash,
                           actual, srv.tx)
    IN  IF srv.witness_event_id # NULL /\ ~srv.witness_ok THEN "ERROR"
        ELSE IF srv.witness_event_id = NULL THEN "NO_WITNESS"
        ELSE IF actual # srv.witness_event_verification_hash THEN "INCONSISTENT"
        ELSE IF doVerifyMerkleProof
                /\ verification_hash # srv.domain_manifest_verification_hash
                /\ ~verifyWitnessMerkleProof(srv, verification_hash)
        THEN "INCONSISTENT"
        ELSE "MATCHES"

legacy_detail(srv, error, verification_status, is_witnessed, is_signed, valid_signature, witness_status) ==
    [rev_id |-> srv.rev_id, error_message |-> error,
     verification_status |-> verification_status, is_witnessed |-> is_witnessed,
     is_signed |-> is_signed, valid_signature |-> valid_signature,
     witness_status |-> witness_status]

\* The legacy verifyRevision: [verificationHash, isCorrect, detail].  srv is
\* what verify_page answers for revid, prev what it answers for prevRevId.
legacy_verifyRevision(srv, prev, hasPrev, previousVerificationHash_, contentHash, doVerifyMerkleProof) ==
    LET metadataHash ==
            legacy_calculateMetadataHash(srv.domain_id, srv.time_stamp,
                                         previousVerificationHash_)
        prevSignature == IF hasPrev /\ ~falsy(prev.signature) THEN prev.signature
                         ELSE EMPTY
        prevPublicKey == IF hasPrev /\ ~falsy(prev.public_key) THEN prev.public_key
                         ELSE EMPTY
        prevWitnessHash == IF hasPrev THEN getWitnessHash(prev) ELSE EMPTY
        signatureHash == calculateSignatureHash(prevSignature, prevPublicKey)
        witnessStatus ==
            legacy_verifyWitness(srv, srv.verification_hash, doVerifyMerkleProof)
        calculatedVerificationHash ==
            calculateVerificationHash(contentHash, metadataHash, signatureHash,
                                      prevWitnessHash)
        is_witnessed == witnessStatus # "NO_WITNESS"
        recoveredAddress ==
            recoverAddress(hashMessage(paddedMessageV12(srv.verification_hash)),
                           srv.signature)
        valid_signature ==
            /\ recoveredAddress # NULL
            /\ toLowerCase(recoveredAddress) = toLowerCase(srv.wallet_address)
        httpError == <<"HTTP 500">>
    IN  IF ~srv.verify_ok \/ (hasPrev /\ ~prev.verify_ok)
        THEN [verificationHash |-> NULL, isCorrect |-> FALSE,
              detail |-> legacy_detail(srv, httpError, "null", "null", FALSE, FALSE,
                                       "null")]
        ELSE IF calculatedVerificationHash # srv.verification_hash
        THEN [verificationHash |-> NULL, isCorrect |-> FALSE,
              detail |-> legacy_detail(srv, NULL, "INVALID", "null", FALSE, FALSE,
                                       witnessStatus)]
        ELSE IF falsy(srv.signature)
        THEN [verificationHash |-> srv.verification_hash, isCorrect |-> TRUE,
              detail |-> legacy_detail(srv, NULL, "VERIFIED",
                                       IF is_witnessed THEN "true" ELSE "false",
                                       FALSE, FALSE, witnessStatus)]
        ELSE [verificationHash |-> srv.verification_hash,
              isCorrect |-> valid_signature
                            /\ ~(is_witnessed /\ witnessStatus = "INCONSISTENT"),
              detail |-> legacy_detail(srv, NULL, "VERIFIED",
                                       IF is_witnessed THEN "true" ELSE "false",
                                       TRUE, valid_signature, witnessStatus)]

-----------------------------------------------------------------------------
(* The legacy verifyPage as a state machine                                *)

MaxPage == 3        \* most revisions of a page

legacy_merkleNode(l, r) ==
    [left_leaf |-> l, right_leaf |-> r, successor |-> getHashSum(l \o r)]

LOpt(body, vh, sig, wit) == [body |-> body, vh |-> vh, sig |-> sig, wit |-> wit]

\* What the server holds for the next revision of the page pg.  opt chooses
\* the body (served, without wikitext, or an HTTP error), the verification
\* hash (the one of schema v1.2, or another), the signature and the witness
\* event.
MakeLegacyRevision(pg, opt) ==
    LET n == Len(pg)
        hasPrev == n > 0
        prevVH == IF hasPrev THEN pg[n].verification_hash ELSE EMPTY
        wikitext == <<"w", ToString(n + 1)>>
        domain_id == <<"d">>
        time_stamp == <<"t", ToString(n + 1)>>
        vh == IF opt.vh = "ok"
              THEN calculateVerificationHash(
                       getHashSum(wikitext),
                       legacy_calculateMetadataHash(domain_id, time_stamp, prevVH),
                       IF hasPrev
                       THEN calculateSignatureHash(orEmpty(pg[n].signature),
                                                   orEmpty(pg[n].public_key))
                       ELSE EMPTY,
                       IF hasPrev THEN getWitnessHash(pg[n]) ELSE EMPTY)
              ELSE OtherHash
        node1 == legacy_merkleNode(vh, S1)
        node2 == legacy_merkleNode(node1.successor, S2)
        badNode2 == [node2 EXCEPT !.successor = OtherHash]
        root == IF opt.wit = "badEnd" THEN OtherRoot ELSE node2.successor
        wevh == IF opt.wit = "mismatch" THEN OtherHash ELSE getHashSum(G \o root)
        witnessed == opt.wit # "none"
    IN  [rev_id |-> <<"r", ToString(n + 1)>>,
         body_ok |-> opt.body # "http",
         wikitext |-> IF opt.body = "ok" THEN wikitext ELSE NULL,
         verify_ok |-> TRUE,
         domain_id |-> domain_id, time_stamp |-> time_stamp,
         verification_hash |-> vh,
         signature |-> CASE opt.sig = "valid" -> Sign("W1", paddedMessageV12(vh))
                         [] opt.sig = "invalid" -> Sign("W2", paddedMessageV12(vh))
                         [] OTHER -> EMPTY,
         public_key |-> IF opt.sig = "none" THEN EMPTY ELSE <<"pk1">>,
         wallet_address |-> IF opt.sig = "none" THEN EMPTY ELSE <<"w1">>,
         witness_event_id |-> IF witnessed THEN <<"e", ToString(n + 1)>> ELSE NULL,
         witness_ok |-> TRUE,
         domain_manifest_verification_hash |-> IF witnessed THEN G ELSE NULL,
         merkle_root |-> IF witnessed THEN root ELSE NULL,
         witness_network |-> IF witnessed THEN <<"sepolia">> ELSE NULL,
         witness_event_transaction_hash |->
             IF witnessed THEN <<"0x", "t", ToString(n + 1)>> ELSE NULL,
         witness_event_verification_hash |-> IF witnessed THEN wevh ELSE NULL,
         tx |-> CASE opt.wit = "none" ->
                         [kind |-> "notfound", selector |-> "", arg |-> EMPTY]
                  [] opt.wit = "wrongSelector" ->
                         [kind |-> "found", selector |-> "0xa9059cbb", arg |-> wevh]
                  [] OTHER ->
                         [kind |-> "found", selector |-> functionSelector, arg |-> wevh],
         proof_ok |-> TRUE,
         merkle_proof |-> CASE opt.wit = "none" -> <<>>
                            [] opt.wit = "badProof" -> <<node1, badNode2>>
                            [] OTHER -> <<node1, node2>>]

LegacyKinds ==
    { LOpt("ok", "ok", "none", "none"),
      LOpt("ok", "bad", "none", "none"),
      LOpt("nowikitext", "ok", "none", "none"),
      LOpt("http", "ok", "none", "none"),
      LOpt("ok", "ok", "valid", "none"),
      LOpt("ok", "ok", "invalid", "none"),
      LOpt("ok", "ok", "none", "ok"),
      LOpt("ok", "ok", "none", "wrongSelector"),
      LOpt("ok", "ok", "none", "mismatch"),
      LOpt("ok", "ok", "none", "badProof"),
      LOpt("ok", "ok", "none", "badEnd"),
      LOpt("ok", "ok", "valid", "ok"),
      LOpt("ok", "ok", "valid", "badProof") }

InitL ==
    /\ page = <<>>
    /\ lpc = "input"
    /\ idx = 0
    /\ count = 0
    /\ details = <<>>
    /\ previousVerificationHash = EMPTY
    /\ previousRevId = EMPTY
    /\ status = ""
    /\ request = [title |-> EMPTY, listFetch |-> "none"]

\* The wiki gets one more revision of the page.
LegacyAddRevision ==
    /\ lpc = "input"
    /\ Len(page) < MaxPage
    /\ \E opt \in LegacyKinds : page' = Append(page, MakeLegacyRevision(page, opt))
    /\ UNCHANGED <<lpc, idx, count, details, previousVerificationHash,
                   previousRevId, status, request>>
    /\ UNCHANGED othersL

\* title.includes("_")
titleIncludesUnderscore(title) == "_" \in {title[i] : i \in DOMAIN title}

\* verifyPage up to its loop: the title is checked and the list of the
\* revisions fetched.  listFetch is what the fetch does: "ok", "refused"
\* (fetch throws), "http" (not ok), "error" (the JSON holds an error).
LegacyCallVerifyPage ==
    /\ lpc = "input"
    /\ \E title \in {<<"Main", "Page">>, <<"Main", "_", "Page">>} :
       \E listFetch \in {"ok", "refused", "http", "error"} :
         IF titleIncludesUnderscore(title)
         THEN /\ status' = "ERROR"
              /\ lpc' = "done"
              /\ request' = [title |-> title, listFetch |-> "none"]
              /\ UNCHANGED <<idx, count, details, previousVerificationHash,
                             previousRevId>>
         ELSE IF listFetch # "ok"
         THEN /\ status' = "ERROR"
              /\ lpc' = "done"
              /\ request' = [title |-> title, listFetch |-> listFetch]
              /\ UNCHANGED <<idx, count, details, previousVerificationHash,
                             previousRevId>>
         ELSE /\ lpc' = "loop"
              /\ idx' = 0
              /\ count' = 0
              /\ details' = <<>>
              /\ previousVerificationHash' = EMPTY
              /\ previousRevId' = EMPTY
              /\ request' = [title |-> title, listFetch |-> listFetch]
              /\ UNCHANGED status
    /\ UNCHANGED page
    /\ UNCHANGED othersL

RevisionById(pg, revid) == CHOOSE r \in {pg[i] : i \in DOMAIN pg} : r.rev_id = revid

\* One iteration of the loop of verifyPage: the body of the revision is
\* fetched (verifyPage throws when it cannot be), the revision is verified,
\* its detail recorded, and verifyPage returns INVALID if it is not correct.
LegacyVerifyNext ==
    /\ lpc = "loop"
    /\ idx < Len(page)
    /\ \E doVerifyMerkleProof \in BOOLEAN :
       LET srv == page[idx + 1]
           hasPrev == previousRevId # EMPTY
           prev == IF hasPrev THEN RevisionById(page, previousRevId) ELSE srv
           r == legacy_verifyRevision(srv, prev, hasPrev, previousVerificationHash,
                                      getHashSum(srv.wikitext), doVerifyMerkleProof)
       IN  IF ~srv.body_ok \/ falsy(srv.wikitext)
           THEN /\ lpc' = "thrown"
                /\ UNCHANGED <<idx, count, details, previousVerificationHash,
                               previousRevId, status>>
           ELSE /\ details' = Append(details, r.detail)
                /\ IF r.isCorrect
                   THEN /\ count' = count + 1
                        /\ previousVerificationHash' = r.verificationHash
                        /\ previousRevId' = srv.rev_id
                        /\ idx' = idx + 1
                        /\ UNCHANGED <<lpc, status>>
                   ELSE /\ status' = "INVALID"
                        /\ lpc' = "done"
                        /\ UNCHANGED <<idx, count, previousVerificationHash,
                                       previousRevId>>
    /\ UNCHANGED <<page, request>>
    /\ UNCHANGED othersL

\* (mutant) a page without revisions counts as verified.
finalStatus_noRecordIsVerified(count_, length) ==
    IF count_ = length THEN "VERIFIED" ELSE "INVALID"

\* The status verifyPage computes after its loop.
finalStatus(count_, length) ==
    IF count_ = length
    THEN (IF count_ = 0 THEN "NORECORD" ELSE "VERIFIED")
    ELSE "INVALID"

\* After the loop: the status from count.
LegacyFinish ==
    /\ lpc = "loop"
    /\ idx = Len(page)
    /\ status' = finalStatus(count, Len(page))
    /\ lpc' = "done"
    /\ UNCHANGED <<page, idx, count, details, previousVerificationHash,
                   previousRevId, request>>
    /\ UNCHANGED othersL

NextLegacy ==
    \/ LegacyAddRevision
    \/ LegacyCallVerifyPage
    \/ LegacyVerifyNext
    \/ LegacyFinish

-----------------------------------------------------------------------------
(* Claims about chain verification in both verifiers                       *)

\* verifyAquaChain records the result of every revision, in insertion order.
C8_DistVerifiesAll ==
    pc = "done" =>
        /\ Len(revisionResults) = Len(chain)
        /\ \A i \in DOMAIN chain :
               revisionResults[i] = verifyRevision(chain[i], ALCHEMY, ledger)

\* The legacy verifyPage records a detail for every revision of the page.
C8_LegacyVerifiesAll ==
    (lpc = "done" /\ status # "ERROR") =>
        /\ Len(details) = Len(page)
        /\ \A i \in DOMAIN page : details[i].rev_id = page[i].rev_id

\* C8: chain verification never stops at the first failing revision: (a)
\* verifyAquaChain and (b) the legacy verifyPage record exactly one result
\* per revision, in insertion order, also after a failing one.
C8_NoShortCircuit == C8_DistVerifiesAll /\ C8_LegacyVerifiesAll

-----------------------------------------------------------------------------
(* src/notarize.js: revisions and their verification hash                  *)

\* A revision (verificationData).  Every field is there; the fields its
\* revision_type does not have hold NULL (or the empty list) and are not
\* part of what is hashed.
BlankRevision ==
    [key |-> EMPTY,
     previous_verification_hash |-> EMPTY, local_timestamp |-> EMPTY,
     revision_type |-> "",
     content |-> NULL, file_hash |-> NULL, file_nonce |-> NULL, forms |-> <<>>,
     signature |-> NULL, signature_public_key |-> NULL,
     signature_wallet_address |-> NULL, signature_type |-> NULL,
     witness_merkle_root |-> NULL, witness_timestamp |-> NULL,
     witness_network |-> NULL, witness_smart_contract_address |-> NULL,
     witness_transaction_hash |-> NULL, witness_sender_account_address |-> NULL,
     witness_merkle_proof |-> <<>>,
     link_type |-> NULL, link_require_indepth_verification |-> NULL,
     link_verification_hashes |-> <<>>, link_file_hashes |-> <<>>,
     has_leaves |-> FALSE, leaves |-> <<>>]

\* JSON.stringify of a list of strings.
RECURSIVE stringifyItems(_)
stringifyItems(list) ==
    IF list = <<>> THEN EMPTY
    ELSE Head(list) \o (IF Len(list) > 1 THEN <<",">> ELSE EMPTY)
         \o stringifyItems(Tail(list))

stringifyList(list) == <<"(">> \o stringifyItems(list) \o <<")">>

\* The properties of verificationData in insertion order, each <<name, value>>
\* with the value as JSON.stringify prints it.
entries(rev) ==
    \* JSON.stringify leaves out a property whose value is undefined
    (IF rev.previous_verification_hash # NULL
     THEN << <<"previous_verification_hash", rev.previous_verification_hash>> >>
     ELSE <<>>)
    \o <<  <<"local_timestamp", rev.local_timestamp>>,
           <<"revision_type", <<rev.revision_type>> >> >>
    \o (IF rev.content # NULL THEN << <<"content", rev.content>> >> ELSE <<>>)
    \o (IF rev.file_hash # NULL
        THEN << <<"file_hash", rev.file_hash>>, <<"file_nonce", rev.file_nonce>> >>
        ELSE <<>>)
    \o [i \in DOMAIN rev.forms |-> <<"forms_" \o rev.forms[i][1], rev.forms[i][2]>>]
    \o (IF rev.revision_type = "signature"
        THEN << <<"signature", rev.signature>>,
                <<"signature_public_key", rev.signature_public_key>>,
                <<"signature_wallet_address", rev.signature_wallet_address>>,
                <<"signature_type", rev.signature_type>> >>
        ELSE <<>>)
    \o (IF rev.revision_type = "witness"
        THEN << <<"witness_merkle_root", rev.witness_merkle_root>>,
                <<"witness_timestamp", rev.witness_timestamp>>,
                <<"witness_network", rev.witness_network>>,
                <<"witness_smart_contract_address", rev.witness_smart_contract_address>>,
                <<"witness_transaction_hash", rev.witness_transaction_hash>>,
                <<"witness_sender_account_address", rev.witness_sender_account_address>>,
                <<"witness_merkle_proof", stringifyList(rev.witness_merkle_proof)>> >>
        ELSE <<>>)
    \o (IF rev.revision_type = "link"
        THEN << <<"link_type", rev.link_type>>,
                <<"link_require_indepth_verification",
                  rev.link_require_indepth_verification>>,
                <<"link_verification_hashes",
                  stringifyList(rev.link_verification_hashes)>>,
                <<"link_file_hashes", stringifyList(rev.link_file_hashes)>> >>
        ELSE <<>>)

\* JSON.stringify(verificationData)
RECURSIVE stringifyEntries(_)
stringifyEntries(es) ==
    IF es = <<>> THEN EMPTY
    ELSE <<Head(es)[1], ":">> \o Head(es)[2] \o <<";">> \o stringifyEntries(Tail(es))

JSONstringify(rev) == <<"{">> \o stringifyEntries(entries(rev)) \o <<"}">>

\* main.dict2Leaves: one leaf per property, the hash of its name and value.
dict2Leaves(rev) ==
    LET es == entries(rev)
    IN  [i \in DOMAIN es |-> getHashSum(<<es[i][1]>> \o es[i][2])]

\* One level of the Merkle tree (duplicateOdd: false): the nodes hashed in
\* pairs, an odd last node carried up unchanged.
RECURSIVE merkleLevel(_)
merkleLevel(nodes) ==
    IF Len(nodes) = 0 THEN <<>>
    ELSE IF Len(nodes) = 1 THEN nodes
    ELSE <<getHashSum(nodes[1] \o nodes[2])>> \o merkleLevel(SubSeq(nodes, 3, Len(nodes)))

\* new MerkleTree(leaves, getHashSum, {duplicateOdd: false}).getHexRoot()
RECURSIVE merkleRoot(_)
merkleRoot(nodes) ==
    IF Len(nodes) = 0 THEN EMPTY
    ELSE IF Len(nodes) = 1 THEN nodes[1]
    ELSE merkleRoot(merkleLevel(nodes))

getHexRoot(leaves) == <<"0x">> \o merkleRoot(leaves)

\* The end of createNewRevision: the verification hash of verificationData,
\* scalar or Merkle; in Merkle mode the leaves are stored in the revision.
withVerificationHash(rev, enableScalar) ==
    IF enableScalar
    THEN [rev EXCEPT !.key = <<"0x">> \o getHashSum(JSONstringify(rev))]
    ELSE LET leaves == dict2Leaves(rev)
         IN  [rev EXCEPT !.key = getHexRoot(leaves),
                         !.has_leaves = TRUE, !.leaves = leaves]

-----------------------------------------------------------------------------
(* src/notarize.js: the aqua object                                        *)

createNewAquaObject == [exists |-> TRUE, revisions |-> <<>>, file_index |-> <<>>]

NoFile == [exists |-> FALSE, revisions |-> <<>>, file_index |-> <<>>]

\* obj[key] = value on a JavaScript object kept as a list of <<key, value>>:
\* a key that is there keeps its place, a new key goes last.
setProperty(props, key, value) ==
    IF \E i \in DOMAIN props : props[i][1] = key
    THEN [i \in DOMAIN props |-> IF props[i][1] = key THEN <<key, value>> ELSE props[i]]
    ELSE Append(props, <<key, value>>)

\* aquaObject.revisions[key] = rev, the same for the list of revisions.
setRevision(revisions, rev) ==
    IF \E i \in DOMAIN revisions : revisions[i].key = rev.key
    THEN [i \in DOMAIN revisions |->
              IF revisions[i].key = rev.key THEN rev ELSE revisions[i]]
    ELSE Append(revisions, rev)

\* (mutant) the first key instead of the last.
lastKey_first(revisions) ==
    IF Len(revisions) = 0 THEN NULL ELSE revisions[1].key

\* verificationHashes[verificationHashes.length - 1] of Object.keys(revisions)
lastKey(revisions) ==
    IF Len(revisions) = 0 THEN NULL ELSE revisions[Len(revisions)].key

\* (mutant) only the last revision is looked at.
checkFileHashAlreadyNotarized_lastOnly(fileHash, aquaObject) ==
    /\ Len(aquaObject.revisions) > 0
    /\ aquaObject.revisions[Len(aquaObject.revisions)].file_hash = fileHash

\* checkFileHashAlreadyNotarized: TRUE when it aborts the process.
checkFileHashAlreadyNotarized(fileHash, aquaObject) ==
    \E i \in DOMAIN aquaObject.revisions :
        /\ ~falsy(aquaObject.revisions[i].file_hash)
        /\ aquaObject.revisions[i].file_hash = fileHash

RECURSIVE setLinks(_, _, _, _)
setLinks(file_index, linkVHs, linkURIsArray, i) ==
    IF i > Len(linkVHs) THEN file_index
    ELSE setLinks(setProperty(file_index, linkVHs[i], linkURIsArray[i]),
                  linkVHs, linkURIsArray, i + 1)

\* maybeUpdateFileIndex: the file index after the revision rev.
maybeUpdateFileIndex(file_index, rev, revisionType, filename, form_file_name, linkURIsArray) ==
    CASE revisionType = "form" -> setProperty(file_index, rev.key, form_file_name)
      [] revisionType = "file" -> setProperty(file_index, rev.key, filename)
      [] revisionType = "link" ->
             setLinks(file_index, rev.link_verification_hashes, linkURIsArray, 1)
      [] OTHER -> file_index


-----------------------------------------------------------------------------
(* src/notarize.js: one run of the command                                 *)

MaxRevisions == 3

Filename == "f1"            \* argv._[0]
LinkedFile == "f2"          \* the file named by --link
AquaFiles == {Filename, LinkedFile}

\* The command lines: --sign, --witness, --link, --form, --scalar, --vtree,
\* --content ("" or NULL: the option is not given).
Args(sign, witness, link, form, vtree, content) ==
    [filename |-> Filename, enableRemoveRevision |-> FALSE,
     signMethod |-> sign, witnessMethod |-> witness, linkURIs |-> link,
     form_file_name |-> form, scalar |-> FALSE, vTree |-> vtree,
     enableContent |-> content]

\* `uri.endsWith(".aqua.json")` on the names the command lines use.
endsWithAquaJson(uri) == uri \in {"f1.aqua.json", "f2.aqua.json"}

Invocations ==
    { Args("", "", "", "", FALSE, FALSE),
      Args("", "", "f2.aqua.json", "", FALSE, FALSE),
      Args("", "", "", "", FALSE, TRUE),
      Args("", "", "", "", TRUE, FALSE),
      Args("", "", "", Filename, FALSE, FALSE),
      Args("", "", LinkedFile, "", FALSE, FALSE),
      Args("cli", "", "", "", FALSE, FALSE),
      Args("did", "", "", "", TRUE, FALSE),
      Args("", "nostr", "", "", FALSE, FALSE),
      Args("", "tsa", "", "", TRUE, FALSE),
      Args("cli", "nostr", "", "", FALSE, FALSE) }

\* What the run finds outside the aqua files: the bytes of the file (NULL: it
\* cannot be read), whether they parse as JSON, the nonce and the clock.
FileContents == {<<>>, <<"a">>, <<"{", "name", ":", "x", "}">>, NULL}
Nonces == {<<"n1">>}
Timestamps == {<<"t1">>}

\* JSON.parse of the form file: its properties, or NULL when it does not parse.
JSONparse(form_data) ==
    IF form_data = <<"{", "name", ":", "x", "}">>
    THEN << <<"name", <<"x">> >> >>
    ELSE NULL

\* main: the revision type the options select.
mainRevisionType(args) ==
    IF args.signMethod # "" THEN "signature"
    ELSE IF args.witnessMethod # "" THEN "witness"
    ELSE IF args.linkURIs # "" THEN "link"
    ELSE IF args.form_file_name # "" THEN "form"
    ELSE "file"

\* main: enableScalar after the options are read.
mainEnableScalar(args) ==
    LET s1 == IF args.form_file_name = "" THEN TRUE ELSE args.scalar
        s2 == IF args.vTree THEN FALSE ELSE s1
    IN  IF mainRevisionType(args) = "form" THEN FALSE ELSE s2

\* getLatestVH(uri)
getLatestVH(aquaObject) == lastKey(aquaObject.revisions)

\* main.getFileHashSum(filename): the hash of the bytes of the file.
getFileHashSum(content) == sha3_512(content)

\* prepareSignature: the properties a signature revision gets.
prepareSignature(previousVerificationHash_, signMethod) ==
    IF signMethod = "did"
    THEN [signature |-> <<"jws", "K1">> \o previousVerificationHash_,
          signature_public_key |-> <<"K1">>,
          signature_wallet_address |-> <<"K1">>,
          signature_type |-> <<"did:key">>]
    ELSE [signature |-> Sign("W1", <<"I sign this revision: [">>
                                   \o previousVerificationHash_ \o <<"]">>),
          signature_public_key |-> <<"P1">>,
          signature_wallet_address |-> <<"W1">>,
          signature_type |-> <<"ethereum:eip-191">>]

\* prepareWitness: the properties a witness revision gets.
prepareWitness(verificationHash, witnessMethod) ==
    [witness_merkle_root |-> verificationHash,
     witness_timestamp |-> <<"1700000000">>,
     witness_network |-> IF witnessMethod = "nostr" THEN <<"nostr">>
                         ELSE IF witnessMethod = "tsa" THEN <<"TSA_RFC3161">>
                         ELSE <<"sepolia">>,
     witness_smart_contract_address |->
         IF witnessMethod = "nostr" THEN <<"N/A">>
         ELSE IF witnessMethod = "tsa" THEN <<"http://timestamp.digicert.com">>
         ELSE <<"0xcontract">>,
     witness_transaction_hash |-> <<"0xtx">>,
     witness_sender_account_address |-> <<"0xpublisher">>,
     witness_merkle_proof |-> <<verificationHash>>]

\* (mutant) the file index is emptied before the checks.
endedEarly_indexCleared(outcome, why, aquaObject, lastHash) ==
    [outcome |-> outcome, why |-> why,
     aquaObject |-> [aquaObject EXCEPT !.file_index = <<>>],
     lastRevisionHash |-> lastHash]

\* createNewRevision ends (process.exit, an exception, or its first await)
\* before it has assigned anything to the aqua object.
endedEarly(outcome, why, aquaObject, lastHash) ==
    [outcome |-> outcome, why |-> why, aquaObject |-> aquaObject,
     lastRevisionHash |-> lastHash]

\* createNewRevision up to its first await, for the revision types that have
\* none: [outcome, aquaObject, lastRevisionHash].  outcome "exit" is
\* process.exit(1), "throw" a rejected promise, "done" a revision appended.
createNewRevision(aquaObject, lastHash, timestamp, revisionType, enableScalar, args, fileContent, nonce, linked) ==
    LET previousVerificationHash_ == lastHash
        verificationData ==
            [BlankRevision EXCEPT
                !.previous_verification_hash = previousVerificationHash_,
                !.local_timestamp = timestamp,
                !.revision_type = revisionType]
        unchanged(outcome, why) == endedEarly(outcome, why, aquaObject, lastHash)
        finish(data) ==
            LET rev == withVerificationHash(data, enableScalar)
            IN  [outcome |-> "done", why |-> revisionType,
                 aquaObject |->
                     [aquaObject EXCEPT
                         !.revisions = setRevision(@, rev),
                         !.file_index =
                             maybeUpdateFileIndex(@, rev, revisionType,
                                 <<args.filename>>, <<args.form_file_name>>,
                                 << <<args.linkURIs>> >>)],
                 lastRevisionHash |-> rev.key]
        \* main.getHashSum of a Buffer: a Buffer is never === "", so the
        \* bytes of an empty file are hashed too.
        fileHash == sha3_512(fileContent)
    IN  CASE revisionType = "file" ->
                 IF fileContent = NULL THEN unchanged("throw", "unreadable file")
                 ELSE IF checkFileHashAlreadyNotarized(fileHash, aquaObject)
                 THEN unchanged("exit", "file hash already notarized")
                 ELSE finish([verificationData EXCEPT
                                 !.content = IF args.enableContent
                                             THEN fileContent ELSE NULL,
                                 !.file_hash = fileHash,
                                 !.file_nonce = nonce])
          [] revisionType = "form" ->
                 IF fileContent = NULL THEN unchanged("exit", "unreadable form")
                 ELSE IF checkFileHashAlreadyNotarized(fileHash, aquaObject)
                 THEN unchanged("exit", "file hash already notarized")
                 ELSE IF JSONparse(fileContent) = NULL
                 THEN unchanged("exit", "form is not JSON")
                 ELSE finish([verificationData EXCEPT
                                 !.file_hash = fileHash,
                                 !.file_nonce = nonce,
                                 !.forms = JSONparse(fileContent)])
          [] revisionType = "link" ->
                 IF endsWithAquaJson(args.linkURIs)
                 THEN unchanged("exit", "link is an aqua file")
                 ELSE IF ~linked.aqua.exists THEN unchanged("throw", "no linked aqua file")
                 ELSE IF \E i \in DOMAIN aquaObject.file_index :
                            aquaObject.file_index[i][1]
                                = getFileHashSum(linked.content)
                 THEN unchanged("exit", "link file hash in file index")
                 ELSE finish([verificationData EXCEPT
                                 !.link_type = <<"aqua">>,
                                 !.link_require_indepth_verification = <<"true">>,
                                 !.link_verification_hashes =
                                     <<getLatestVH(linked.aqua)>>,
                                 !.link_file_hashes =
                                     <<getFileHashSum(linked.content)>>])
          [] OTHER -> unchanged("await", revisionType)

\* createNewRevision after `await prepareSignature` or `await prepareWitness`.
resumeNewRevision(aquaObject, p) ==
    LET verificationData ==
            [BlankRevision EXCEPT
                !.previous_verification_hash = p.previousVerificationHash_,
                !.local_timestamp = p.timestamp,
                !.revision_type = p.revisionType]
        sigData == prepareSignature(p.previousVerificationHash_, p.args.signMethod)
        witness == prepareWitness(p.previousVerificationHash_, p.args.witnessMethod)
        data ==
            IF p.revisionType = "signature"
            THEN [verificationData EXCEPT
                     !.signature = sigData.signature,
                     !.signature_public_key = sigData.signature_public_key,
                     !.signature_wallet_address = sigData.signature_wallet_address,
                     !.signature_type = sigData.signature_type]
            ELSE [verificationData EXCEPT
                     !.witness_merkle_root = witness.witness_merkle_root,
                     !.witness_timestamp = witness.witness_timestamp,
                     !.witness_network = witness.witness_network,
                     !.witness_smart_contract_address =
                         witness.witness_smart_contract_address,
                     !.witness_transaction_hash = witness.witness_transaction_hash,
                     !.witness_sender_account_address =
                         witness.witness_sender_account_address,
                     !.witness_merkle_proof = witness.witness_merkle_proof]
        rev == withVerificationHash(data, p.enableScalar)
    IN  [aquaObject |-> [aquaObject EXCEPT !.revisions = setRevision(@, rev)],
         lastRevisionHash |-> rev.key]


-----------------------------------------------------------------------------
(* src/notarize.js: the state machine of the runs                          *)

\* `delete obj[key]`
deleteProperty(props, key) ==
    SelectSeq(props, LAMBDA kv : kv[1] # key)

RECURSIVE deleteProperties(_, _)
deleteProperties(props, keys) ==
    IF keys = <<>> THEN props
    ELSE deleteProperties(deleteProperty(props, Head(keys)), Tail(keys))

\* `delete aquaObject.revisions[key]`
deleteRevision(revisions, key) ==
    SelectSeq(revisions, LAMBDA rev : rev.key # key)

\* Line 610 reads the identifier `lastRevisionHash`, which nothing in the
\* module declares (the field is this.lastRevisionHash): evaluating it throws
\* a ReferenceError.
LastRevisionHashDeclared == FALSE

\* removeLastRevision: [outcome, aquaObject, file], where file is what was
\* done to the aqua file: "untouched", "written" or "deleted".
removeLastRevision(aquaObject, lastHash) ==
    IF ~\E i \in DOMAIN aquaObject.revisions : aquaObject.revisions[i].key = lastHash
    THEN \* lastRevision is undefined: lastRevision.revision_type throws
         [outcome |-> "throw", aquaObject |-> aquaObject, file |-> "untouched"]
    ELSE LET lastRevision ==
                 CHOOSE rev \in {aquaObject.revisions[i] : i \in DOMAIN aquaObject.revisions} :
                     rev.key = lastHash
             file_index ==
                 CASE lastRevision.revision_type = "file" ->
                          deleteProperty(aquaObject.file_index, lastRevision.file_hash)
                   [] lastRevision.revision_type = "link" ->
                          deleteProperties(aquaObject.file_index,
                                           lastRevision.link_verification_hashes)
                   [] OTHER -> aquaObject.file_index
             indexed == [aquaObject EXCEPT !.file_index = file_index]
             removed == [indexed EXCEPT !.revisions = deleteRevision(@, lastHash)]
         IN  IF ~LastRevisionHashDeclared
             THEN [outcome |-> "throw", aquaObject |-> indexed, file |-> "untouched"]
             ELSE IF Len(removed.revisions) = 0
             THEN [outcome |-> "done", aquaObject |-> removed, file |-> "deleted"]
             ELSE [outcome |-> "done", aquaObject |-> removed, file |-> "written"]

\* The command line of a removal.
RemoveInvocations ==
    { [Args("", "", "", "", FALSE, FALSE) EXCEPT !.enableRemoveRevision = TRUE] }

\* The history of a run: what it was (op), why it ended (why), the aqua
\* files before it (before), for a removal, whether it came right after
\* a successful append and what the aqua files were before that append, and
\* for a witness over several chains, the files it named (files); for a
\* run that made a revision, its command line (args).
Hist(op, why, before) ==
    [op |-> op, why |-> why, before |-> before,
     afterAppend |-> FALSE, beforeAppend |-> before, files |-> <<>>,
     args |-> Args("", "", "", "", FALSE, FALSE)]

NoPending ==
    [args |-> Args("", "", "", "", FALSE, FALSE), timestamp |-> EMPTY,
     revisionType |-> "", enableScalar |-> TRUE,
     previousVerificationHash_ |-> EMPTY,
     all_file_aqua_objects |-> <<>>]

\* The aqua file of the linked file: one genesis revision, written by an
\* earlier run of the command on that file.
LinkedAqua ==
    createNewRevision(createNewAquaObject, EMPTY, <<"t0">>, "file", TRUE,
                      [Args("", "", "", "", FALSE, FALSE)
                          EXCEPT !.filename = LinkedFile],
                      <<"c2">>, <<"n0">>,
                      [aqua |-> NoFile, content |-> NULL]).aquaObject

Linked == [aqua |-> disk[LinkedFile], content |-> <<"c2">>]

InitN ==
    /\ disk = [f \in AquaFiles |-> IF f = LinkedFile THEN LinkedAqua ELSE NoFile]
    /\ mem = NoFile
    /\ lastRevisionHash = NULL
    /\ npc = "idle"
    /\ pending = NoPending
    /\ genesisCreated = FALSE
    /\ nhist = Hist("none", "", disk)

\* The contents a run can find in the file it reads: only a file or form
\* revision reads the file.
ContentsRead(revisionType) ==
    IF revisionType \in {"file", "form"} THEN FileContents ELSE {NULL}

\* main when the aqua file is not there: createGenesisRevision.  The
\* constructor does not wait for createNewRevision, so the object is written
\* even when createNewRevision threw.
GenesisRun(invocations) ==
    /\ npc = "idle"
    /\ ~disk[Filename].exists
    /\ \E args \in invocations, fileContent \in FileContents,
          nonce \in Nonces, timestamp \in Timestamps :
          LET revisionType == IF args.form_file_name # "" THEN "form" ELSE "file"
          IN  \E r \in {createNewRevision(createNewAquaObject, EMPTY, timestamp,
                                          revisionType, mainEnableScalar(args), args,
                                          fileContent, nonce, Linked)} :
              IF \/ (args.form_file_name # "" /\ args.form_file_name # args.filename)
                 \/ args.enableRemoveRevision
              THEN /\ UNCHANGED <<disk, mem, lastRevisionHash, genesisCreated>>
                   /\ nhist' = Hist("nothing", "", disk)
              ELSE IF r.outcome = "exit"
              THEN /\ mem' = r.aquaObject
                   /\ lastRevisionHash' = r.lastRevisionHash
                   /\ UNCHANGED <<disk, genesisCreated>>
                   /\ nhist' = Hist("rejected", r.why, disk)
              ELSE /\ mem' = r.aquaObject
                   /\ lastRevisionHash' = r.lastRevisionHash
                   /\ disk' = [disk EXCEPT ![Filename] = r.aquaObject]
                   /\ genesisCreated' = (r.outcome = "done")
                   /\ nhist' = [Hist(IF r.outcome = "done" THEN "append" ELSE "thrown",
                                     r.why, disk)
                                   EXCEPT !.args = IF r.outcome = "done" THEN args ELSE @]
    /\ UNCHANGED <<npc, pending>>
    /\ UNCHANGED othersN

NotarizeGenesis == GenesisRun(Invocations \cup RemoveInvocations)

\* main when the aqua file is there: read it, createNewRevision, write it.
\* createNewRevision is not waited for: a signature or witness revision is
\* still being prepared when the file is written.
AppendRun(invocations) ==
    /\ npc = "idle"
    /\ disk[Filename].exists
    /\ Len(disk[Filename].revisions) < MaxRevisions
    /\ \E args \in invocations, nonce \in Nonces, timestamp \in Timestamps :
       \E fileContent \in ContentsRead(mainRevisionType(args)) :
          LET aquaObject == disk[Filename]
              last == lastKey(aquaObject.revisions)
              revisionType == mainRevisionType(args)
              enableScalar == mainEnableScalar(args)
          IN  \E r \in {createNewRevision(aquaObject, last, timestamp, revisionType,
                                          enableScalar, args, fileContent, nonce,
                                          Linked)} :
              IF args.signMethod # "" /\ args.witnessMethod # ""
              THEN /\ mem' = aquaObject
                   /\ lastRevisionHash' = last
                   /\ UNCHANGED <<disk, npc, pending>>
                   /\ nhist' = Hist("rejected", "sign and witness", disk)
              ELSE IF r.outcome = "exit"
              THEN /\ mem' = r.aquaObject
                   /\ lastRevisionHash' = r.lastRevisionHash
                   /\ UNCHANGED <<disk, npc, pending>>
                   /\ nhist' = Hist("rejected", r.why, disk)
              ELSE /\ mem' = r.aquaObject
                   /\ lastRevisionHash' = r.lastRevisionHash
                   /\ disk' = [disk EXCEPT ![Filename] = r.aquaObject]
                   /\ nhist' = [Hist(CASE r.outcome = "done" -> "append"
                                       [] r.outcome = "await" -> "started"
                                       [] OTHER -> "thrown",
                                     r.why, disk)
                                   EXCEPT !.args = IF r.outcome = "done" THEN args ELSE @]
                   /\ IF r.outcome = "await"
                      THEN /\ npc' = "await"
                           /\ pending' = [args |-> args, timestamp |-> timestamp,
                                          revisionType |-> revisionType,
                                          enableScalar |-> enableScalar,
                                          previousVerificationHash_ |-> last,
                                          all_file_aqua_objects |-> <<>>]
                      ELSE UNCHANGED <<npc, pending>>
    /\ UNCHANGED genesisCreated
    /\ UNCHANGED othersN

NotarizeAppend == AppendRun(Invocations)

\* prepareSignature or prepareWitness returns (or ends the process), and
\* createNewRevision runs to its end; nothing is written after it.
NotarizeResume ==
    /\ npc = "await"
    /\ \E prepared \in BOOLEAN :
          IF prepared
          THEN LET r == resumeNewRevision(mem, pending)
               IN  /\ mem' = r.aquaObject
                   /\ lastRevisionHash' = r.lastRevisionHash
                   /\ nhist' = [Hist("prepared", pending.revisionType, nhist.before)
                                   EXCEPT !.args = pending.args]
          ELSE /\ UNCHANGED <<mem, lastRevisionHash>>
               /\ nhist' = Hist("notPrepared", pending.revisionType, nhist.before)
    /\ npc' = "idle"
    /\ pending' = NoPending
    /\ UNCHANGED <<disk, genesisCreated>>
    /\ UNCHANGED othersN

\* main with --rm when the aqua file is there: read it, removeLastRevision.
NotarizeRemove ==
    /\ npc = "idle"
    /\ disk[Filename].exists
    /\ \E args \in RemoveInvocations :
          LET aquaObject == disk[Filename]
              last == lastKey(aquaObject.revisions)
              r == removeLastRevision(aquaObject, last)
          IN  /\ mem' = r.aquaObject
              /\ lastRevisionHash' = last
              /\ disk' = CASE r.file = "written" ->
                                  [disk EXCEPT ![Filename] = r.aquaObject]
                           [] r.file = "deleted" -> [disk EXCEPT ![Filename] = NoFile]
                           [] OTHER -> disk
              /\ nhist' = [op |-> "remove", why |-> r.outcome, before |-> disk,
                           afterAppend |-> nhist.op = "append",
                           beforeAppend |-> nhist.before, files |-> <<>>,
                           args |-> args]
    /\ UNCHANGED <<npc, pending, genesisCreated>>
    /\ UNCHANGED othersN

NextNotarize ==
    \/ NotarizeGenesis
    \/ NotarizeAppend
    \/ NotarizeResume
    \/ NotarizeRemove

-----------------------------------------------------------------------------
(* C1: the chain a builder makes is linked                                 *)

\* The revisions in insertion order: the first has no predecessor ("") and
\* every later one names the key of the one inserted just before it.
LinkedRevisions(revisions) ==
    \A i \in DOMAIN revisions :
        revisions[i].previous_verification_hash
            = IF i = 1 THEN EMPTY ELSE revisions[i - 1].key

\* C1: in every aqua object that began with a genesis revision and grew by
\* successful createNewRevision appends of any revision types, in the memory
\* of the run and in the aqua file, the first revision's
\* previous_verification_hash is "" and every later revision's
\* previous_verification_hash is the key of the revision inserted before it.
C1_BuilderLinkage ==
    /\ LinkedRevisions(disk[LinkedFile].revisions)
    /\ genesisCreated =>
          /\ LinkedRevisions(disk[Filename].revisions)
          /\ LinkedRevisions(mem.revisions)

\* A chain of a genesis, a link revision and a signature revision.
C1_Witness ==
    /\ genesisCreated
    /\ Len(mem.revisions) = 3
    /\ mem.revisions[2].revision_type = "link"
    /\ mem.revisions[3].revision_type = "signature"
    /\ Len(disk[Filename].revisions) = 2


-----------------------------------------------------------------------------
(* C11: the signature sub-result                                           *)

\* The address recovered from the signature of rev over the message built
\* from its previous_verification_hash is the declared wallet address,
\* compared without regard to case.
RecoversDeclaredWallet(rev) ==
    LET recoveredAddress ==
            recoverAddress(
                hashMessage(paddedMessageV12(orEmpty(rev.previous_verification_hash))),
                rev.signature)
    IN  /\ recoveredAddress # NULL
        /\ toLowerCase(recoveredAddress) = toLowerCase(rev.wallet_address)

\* C11: for every revision that carries a signature, whatever its
\* previous_verification_hash (the empty one of a genesis revision too), the
\* signature sub-result is AVAILABLE and is successful iff the recovered
\* address equals the declared wallet address.
C11_SignatureIff ==
    ResultsCurrent =>
        \A i \in DOMAIN revisionResults :
            chain[i].has_signature =>
                /\ revisionResults[i].signature_verification.status = "AVAILABLE"
                /\ revisionResults[i].signature_verification.successful
                       <=> RecoversDeclaredWallet(chain[i])

\* C11 restricted to revisions that name a predecessor.
C11_SignatureIffNonEmpty ==
    ResultsCurrent =>
        \A i \in DOMAIN revisionResults :
            (chain[i].has_signature
             /\ orEmpty(chain[i].previous_verification_hash) # EMPTY) =>
                /\ revisionResults[i].signature_verification.status = "AVAILABLE"
                /\ revisionResults[i].signature_verification.successful
                       <=> RecoversDeclaredWallet(chain[i])

-----------------------------------------------------------------------------
(* C12, C13: removing the last revision                                    *)

\* C12: a removal that comes right after a successful append leaves
\* `revisions`, `file_index` and the aqua file as they were before the
\* append.
C12_RollbackRoundTrip ==
    (nhist.op = "remove" /\ nhist.afterAppend) =>
        /\ disk = nhist.beforeAppend
        /\ mem.revisions = nhist.beforeAppend[Filename].revisions
        /\ mem.file_index = nhist.beforeAppend[Filename].file_index

\* C13: a removal on a chain of k >= 1 revisions leaves the first k - 1
\* revisions, unchanged and in order; the aqua file is deleted when k = 1
\* and holds the shortened chain otherwise.
C13_RemovesExactlyTheTip ==
    (nhist.op = "remove" /\ Len(nhist.before[Filename].revisions) >= 1) =>
        LET before == nhist.before[Filename].revisions
            k == Len(before)
        IN  /\ mem.revisions = SubSeq(before, 1, k - 1)
            /\ IF k = 1
               THEN ~disk[Filename].exists
               ELSE /\ disk[Filename].exists
                    /\ disk[Filename].revisions = SubSeq(before, 1, k - 1)

-----------------------------------------------------------------------------
(* C14 .. C17: the file index and refused appends                          *)

\* file_index has the property `key`.
InFileIndex(file_index, key) == \E i \in DOMAIN file_index : file_index[i][1] = key

\* Every file or form revision of the aqua object has an entry of file_index
\* under `keyOf(rev)` that names the file.
FilesIndexedBy(aquaObject, keyOf(_)) ==
    \A i \in DOMAIN aquaObject.revisions :
        LET rev == aquaObject.revisions[i]
        IN  rev.revision_type \in {"file", "form"} =>
                \E n \in DOMAIN aquaObject.file_index :
                    /\ aquaObject.file_index[n][1] = keyOf(rev)
                    /\ aquaObject.file_index[n][2] \in {<<Filename>>, <<LinkedFile>>}

fileHashOf(rev) == rev.file_hash

verificationHashOf(rev) == rev.key

\* C14: for every file or form revision of a chain, file_index has an entry
\* whose key is the revision's file_hash and whose value is the name of the
\* file.
C14_FileIndexByFileHash ==
    /\ FilesIndexedBy(disk[Filename], fileHashOf)
    /\ FilesIndexedBy(mem, fileHashOf)

\* What the builder keeps instead: the entry is under the verification hash.
C14_FileIndexByVerificationHash ==
    /\ \A f \in AquaFiles : FilesIndexedBy(disk[f], verificationHashOf)
    /\ FilesIndexedBy(mem, verificationHashOf)


\* Every hash a link revision of the aqua object cites is a key of its
\* file_index.
LinksIndexed(aquaObject) ==
    \A i \in DOMAIN aquaObject.revisions :
        LET rev == aquaObject.revisions[i]
        IN  rev.revision_type = "link" =>
                \A n \in DOMAIN rev.link_verification_hashes :
                    InFileIndex(aquaObject.file_index, rev.link_verification_hashes[n])

\* C15: after any appends and removals, every hash in the
\* link_verification_hashes of every link revision still in the chain is a
\* key of file_index, in the aqua object of the run and in the aqua file.
C15_LinksIndexed ==
    /\ LinksIndexed(disk[Filename])
    /\ LinksIndexed(mem)

\* C15 for the aqua file alone.
C15_PersistedLinksIndexed == LinksIndexed(disk[Filename])


\* No two file or form revisions of the aqua object have the same file_hash.
DistinctFileHashes(aquaObject) ==
    \A i, k \in DOMAIN aquaObject.revisions :
        LET a == aquaObject.revisions[i]
            b == aquaObject.revisions[k]
        IN  (/\ i # k
             /\ a.revision_type \in {"file", "form"}
             /\ b.revision_type \in {"file", "form"})
                => a.file_hash # b.file_hash

\* C16: in every chain the appends can reach, no two revisions of kind file
\* or form have the same file_hash.
C16_NoDuplicateFileHash ==
    /\ \A f \in AquaFiles : DistinctFileHashes(disk[f])
    /\ DistinctFileHashes(mem)

\* A chain of a form revision and a file revision of the empty file stands,
\* and the append of a file whose hash is already in it has just been
\* refused.
C16_Witness ==
    /\ nhist.op = "rejected"
    /\ nhist.why = "file hash already notarized"
    /\ Len(disk[Filename].revisions) = 2
    /\ disk[Filename].revisions[1].revision_type = "form"
    /\ disk[Filename].revisions[2].revision_type = "file"
    /\ disk[Filename].revisions[2].file_hash = sha3_512(EMPTY)


\* The reasons for which createNewRevision refuses an append.
Refusals ==
    {"file hash already notarized", "link is an aqua file",
     "link file hash in file index"}

C17_LinkFileHashNeverRefused == nhist.why # "link file hash in file index"

-----------------------------------------------------------------------------
(* src/notarize.js: one witness over several aqua chains                   *)

\* `--witness <method> f1,f2`: filename is kept as the list that
\* filename.split(",") gives.
FileLists == {<<Filename, LinkedFile>>, <<LinkedFile, Filename>>}

MultiInvocations ==
    { [Args("", w, "", "", FALSE, FALSE) EXCEPT !.filename = files] :
          w \in {"nostr", "eth"}, files \in FileLists }

\* The command lines that build the chains a witness is then put on.
ChainInvocations ==
    { Args("", "", "", "", FALSE, FALSE),
      Args("", "nostr", "", "", FALSE, FALSE) }

\* MerkleTree's bufferify of a leaf: the bytes of a hex string, without its
\* 0x prefix.
bufferify(value) ==
    IF value # <<>> /\ Head(value) = "0x" THEN Tail(value) ELSE value

\* (mutant) the first key of every aqua object instead of the last.
lastRevionHashes_first(all_file_aqua_objects) ==
    [i \in DOMAIN all_file_aqua_objects |->
        lastKey_first(all_file_aqua_objects[i].revisions)]

\* The last key of every aqua object, in the order of the command line.
lastRevionHashes(all_file_aqua_objects) ==
    [i \in DOMAIN all_file_aqua_objects |->
        lastKey(all_file_aqua_objects[i].revisions)]

\* tree2.getHexRoot(): the root of the tree whose leaves are the tips.
tree2HexRoot(hashes) ==
    getHexRoot([i \in DOMAIN hashes |-> bufferify(hashes[i])])

\* createRevisionWithMultipleAquaChain up to `await prepareWitness`: every
\* aqua file is read ("exit": one of them is not there) and the tree over
\* the tips is built ("throw": an aqua object without revisions has no last
\* key, and the tree cannot hash an undefined leaf).
readAquaChains(all_aqua_files, aquaFiles) ==
    IF \E i \in DOMAIN all_aqua_files : ~aquaFiles[all_aqua_files[i]].exists
    THEN [outcome |-> "exit", why |-> "file does not exist",
          all_file_aqua_objects |-> <<>>]
    ELSE LET objects == [i \in DOMAIN all_aqua_files |-> aquaFiles[all_aqua_files[i]]]
         IN  IF \E i \in DOMAIN objects : lastKey(objects[i].revisions) = NULL
             THEN [outcome |-> "throw", why |-> "no last revision",
                   all_file_aqua_objects |-> objects]
             ELSE [outcome |-> "await", why |-> "witness",
                   all_file_aqua_objects |-> objects]

\* One turn of the loop after the await: the aqua object of one file with
\* its witness revision, always in Merkle mode.  Line 245 has put the list
\* of all the tips in witnessResult.witness_merkle_proof.
witnessAquaChain(current_file_aqua_object, witnessResult, hashes, timestamp, revisionType) ==
    LET latestRevisionKey == lastKey(current_file_aqua_object.revisions)
        verificationData ==
            [BlankRevision EXCEPT
                !.previous_verification_hash = latestRevisionKey,
                !.local_timestamp = timestamp,
                !.revision_type = revisionType,
                !.witness_merkle_root = witnessResult.witness_merkle_root,
                !.witness_timestamp = witnessResult.witness_timestamp,
                !.witness_network = witnessResult.witness_network,
                !.witness_smart_contract_address =
                    witnessResult.witness_smart_contract_address,
                !.witness_transaction_hash = witnessResult.witness_transaction_hash,
                !.witness_sender_account_address =
                    witnessResult.witness_sender_account_address,
                !.witness_merkle_proof = hashes]
        rev == withVerificationHash(verificationData, FALSE)
    IN  [current_file_aqua_object EXCEPT
            !.revisions = setRevision(@, rev),
            !.file_index = maybeUpdateFileIndex(@, rev, revisionType, "", "", <<>>)]

\* (mutant) the loop runs whether or not prepareWitness returned.
serializedFiles_always(all_aqua_files, prepared, failsAt) == DOMAIN all_aqua_files

\* The indexes of the files the loop after the await writes: none when
\* prepareWitness threw or ended the process; when it returned, all of them,
\* or, when writeFileSync throws for the file at index failsAt (0: no write
\* fails) and serializeAquaObject ends the process, the ones before it.
serializedFiles(all_aqua_files, prepared, failsAt) ==
    IF prepared
    THEN {i \in DOMAIN all_aqua_files : failsAt = 0 \/ i < failsAt}
    ELSE {}

\* main with --witness and a list of files: createRevisionWithMultipleAquaChain
\* up to its await.
MultiStartRun(invocations) ==
    /\ npc = "idle"
    /\ \E args \in invocations, timestamp \in Timestamps :
          /\ \A i \in DOMAIN args.filename :
                Len(disk[args.filename[i]].revisions) < MaxRevisions
          /\ \E r \in {readAquaChains(args.filename, disk)} :
                IF r.outcome = "await"
                THEN /\ npc' = "awaitMulti"
                     /\ pending' = [NoPending EXCEPT
                                       !.args = args, !.timestamp = timestamp,
                                       !.revisionType = mainRevisionType(args),
                                       !.all_file_aqua_objects =
                                           r.all_file_aqua_objects]
                     /\ nhist' = [Hist("multiStarted", r.why, disk)
                                     EXCEPT !.files = args.filename]
                ELSE /\ UNCHANGED <<npc, pending>>
                     /\ nhist' = [Hist(IF r.outcome = "exit" THEN "rejected"
                                       ELSE "thrown", r.why, disk)
                                     EXCEPT !.files = args.filename]
    /\ UNCHANGED <<disk, mem, lastRevisionHash, genesisCreated>>
    /\ UNCHANGED othersN

MultiWitnessStart == MultiStartRun(MultiInvocations)

\* prepareWitness returns (or throws, or ends the process), and the loop
\* appends the witness revision to every aqua object and writes every file,
\* one after the other; a write that fails ends the process there.
MultiResumeRun(writeFailures) ==
    /\ npc = "awaitMulti"
    /\ \E prepared \in BOOLEAN, failsAt \in writeFailures :
          LET all_aqua_files == pending.args.filename
              objects == pending.all_file_aqua_objects
              hashes == lastRevionHashes(objects)
              witnessResult == prepareWitness(tree2HexRoot(hashes),
                                              pending.args.witnessMethod)
              written == serializedFiles(all_aqua_files, prepared, failsAt)
              indexOf(f) == CHOOSE i \in written :
                                /\ all_aqua_files[i] = f
                                /\ \A k \in written : all_aqua_files[k] = f => k <= i
          IN  /\ disk' = [f \in AquaFiles |->
                            IF \E i \in written : all_aqua_files[i] = f
                            THEN witnessAquaChain(objects[indexOf(f)], witnessResult,
                                                  hashes, pending.timestamp,
                                                  pending.revisionType)
                            ELSE disk[f]]
              /\ nhist' = [Hist(CASE ~prepared -> "multiFailed"
                                  [] prepared /\ failsAt = 0 -> "multiWitness"
                                  [] OTHER -> "multiWriteFailed",
                                "witness", nhist.before)
                              EXCEPT !.files = all_aqua_files,
                                     !.args = IF prepared THEN pending.args ELSE @]
    /\ npc' = "idle"
    /\ pending' = NoPending
    /\ UNCHANGED <<mem, lastRevisionHash, genesisCreated>>
    /\ UNCHANGED othersN

\* The run in which every write succeeds.
MultiWitnessResume == MultiResumeRun({0})

WitnessGenesis == GenesisRun(ChainInvocations)

WitnessAppend == AppendRun(ChainInvocations)

NextWitness ==
    \/ WitnessGenesis
    \/ WitnessAppend
    \/ NotarizeResume
    \/ MultiWitnessStart
    \/ MultiWitnessResume

-----------------------------------------------------------------------------
(* C18: one witness over several chains                                    *)

\* The revision a run appended to the aqua file f.
AppendedTo(f) == disk[f].revisions[Len(disk[f].revisions)]

\* The tips of the files of the run before it, in the order it named them.
TipsBefore ==
    [i \in DOMAIN nhist.files |-> lastKey(nhist.before[nhist.files[i]].revisions)]

\* The transaction data prepareWitness returned, as a revision carries them.
TransactionData(rev) ==
    <<rev.witness_timestamp, rev.witness_network,
      rev.witness_smart_contract_address, rev.witness_transaction_hash,
      rev.witness_sender_account_address>>

\* C18: after a successful witness over the chains C1, C2 every chain has
\* exactly one revision more than before, a witness revision whose
\* previous_verification_hash is the tip of that chain before the run; both
\* revisions carry the same witness_merkle_root, the Merkle root over the
\* tips in the order of the command line, and the same transaction data.
C18_OneWitnessPerChain ==
    (nhist.op = "multiWitness") =>
        LET R == <<"0x">> \o sha3_512(bufferify(TipsBefore[1]) \o bufferify(TipsBefore[2]))
        IN  \A i \in DOMAIN nhist.files :
                LET f == nhist.files[i]
                    before == nhist.before[f].revisions
                IN  /\ Len(disk[f].revisions) = Len(before) + 1
                    /\ SubSeq(disk[f].revisions, 1, Len(before)) = before
                    /\ AppendedTo(f).revision_type = "witness"
                    /\ AppendedTo(f).previous_verification_hash = TipsBefore[i]
                    /\ AppendedTo(f).witness_merkle_root = R
                    /\ TransactionData(AppendedTo(f))
                           = TransactionData(AppendedTo(nhist.files[1]))

\* A witness over f2 and f1, in that order, where the chain of f1 had two
\* revisions, so that its tip is not its first key.
C18_Witness ==
    /\ nhist.op = "multiWitness"
    /\ nhist.files = <<LinkedFile, Filename>>
    /\ Len(nhist.before[Filename].revisions) = 2
    /\ Len(disk[Filename].revisions) = 3
    /\ Len(disk[LinkedFile].revisions) = 2

-----------------------------------------------------------------------------
(* C19: the Merkle proof a chain's witness revision stores                 *)

\* getHexProof of the leaf at index i of a tree of two leaves: its sibling.
SiblingProof(hashes, i) == <<hashes[3 - i]>>

\* C19: after a successful witness over two chains, the witness_merkle_proof
\* stored in each chain's witness revision is the proof for that chain's own
\* tip: the single sibling tip.
C19_ProofOfOwnTip ==
    (nhist.op = "multiWitness") =>
        \A i \in DOMAIN nhist.files :
            AppendedTo(nhist.files[i]).witness_merkle_proof
                = SiblingProof(TipsBefore, i)

\* What the code stores: the list of all the tips, the same in every chain.
C19_ProofIsAllTips ==
    (nhist.op = "multiWitness") =>
        \A i \in DOMAIN nhist.files :
            AppendedTo(nhist.files[i]).witness_merkle_proof = TipsBefore

-----------------------------------------------------------------------------
(* C20: a failed witness changes nothing                                   *)

C20_WitnessSingle ==
    /\ nhist.op = "notPrepared"
    /\ nhist.why = "witness"
    /\ Len(disk[Filename].revisions) = 2

-----------------------------------------------------------------------------
(* C21: the hash mode of the revisions notarize makes                      *)

\* The command lines on which the hash mode depends: --form, --scalar,
\* --vtree, alone and with --sign or --witness.
ModeInvocations ==
    { Args("", "", "", "", FALSE, FALSE),
      Args("", "", "", "", TRUE, FALSE),
      Args("", "", "", Filename, FALSE, FALSE),
      Args("cli", "", "", Filename, FALSE, FALSE),
      [Args("cli", "", "", Filename, FALSE, FALSE) EXCEPT !.scalar = TRUE] }

\* One witness over the two chains.
ModeMultiInvocations ==
    { [Args("", "nostr", "", "", FALSE, FALSE)
          EXCEPT !.filename = <<Filename, LinkedFile>>] }

ModeGenesis == GenesisRun(ModeInvocations)

ModeMultiStart == MultiStartRun(ModeMultiInvocations)

ModeAppend == AppendRun(ModeInvocations)

NextMode ==
    \/ ModeGenesis
    \/ ModeAppend
    \/ NotarizeResume
    \/ ModeMultiStart
    \/ MultiWitnessResume

\* The revision the run has made: the one under this.lastRevisionHash.
RevisionMade ==
    CHOOSE rev \in {mem.revisions[i] : i \in DOMAIN mem.revisions} :
        rev.key = lastRevisionHash

\* Scalar mode: no leaves, and the key is "0x" + the hash of the JSON.
InScalarMode(rev) ==
    /\ ~rev.has_leaves
    /\ rev.key = <<"0x">> \o sha3_512(JSONstringify(rev))

\* Merkle mode: the leaves are stored, and the key is the root over them.
InMerkleMode(rev) ==
    /\ rev.has_leaves
    /\ rev.leaves = dict2Leaves([rev EXCEPT !.has_leaves = FALSE, !.leaves = <<>>])
    /\ rev.key = getHexRoot(rev.leaves)

\* The mode the revision should have: Merkle for a form, scalar for every
\* other kind unless --vtree asked for Merkle mode.
ModeAsSpecified(rev, vTree) ==
    IF rev.revision_type = "form" THEN InMerkleMode(rev)
    ELSE ~vTree => InScalarMode(rev)

\* C21: every form revision notarize makes, genesis or appended, whatever
\* other options are given, is in Merkle mode with its leaves stored; every
\* revision of another kind, the witness revisions of a witness over several
\* chains and the revisions made while --form is given included, is in
\* scalar mode unless --vtree was given.
C21_HashMode ==
    /\ (nhist.op \in {"append", "prepared"}) =>
           ModeAsSpecified(RevisionMade, nhist.args.vTree)
    /\ (nhist.op = "multiWitness") =>
           \A i \in DOMAIN nhist.files :
               ModeAsSpecified(AppendedTo(nhist.files[i]), nhist.args.vTree)

\* What holds: the runs on one chain without --form, and the runs whose only
\* option is --form, give the specified mode.
C21_HashModeWithoutFormOption ==
    (/\ nhist.op \in {"append", "prepared"}
     /\ \/ nhist.args.form_file_name = ""
        \/ (nhist.args.signMethod = "" /\ nhist.args.witnessMethod = "")) =>
        ModeAsSpecified(RevisionMade, nhist.args.vTree)

\* The three cases that do not: a form genesis made with --scalar and --sign,
\* a signature appended with --form, a witness over several chains.
C21_FormGenesisScalar ==
    ~(/\ nhist.op = "append"
      /\ RevisionMade.revision_type = "form"
      /\ InScalarMode(RevisionMade))

C21_SignatureWithFormMerkle ==
    ~(/\ nhist.op = "prepared"
      /\ RevisionMade.revision_type = "signature"
      /\ ~nhist.args.vTree
      /\ InMerkleMode(RevisionMade))

C21_MultiWitnessMerkle ==
    ~(/\ nhist.op = "multiWitness"
      /\ InMerkleMode(AppendedTo(Filename)))

-----------------------------------------------------------------------------
(* src/dist/index.js: the class AquaVerifier                               *)

\* The argument of `new AquaVerifier(options)`; NULL is a property that is
\* not given.  Without an argument the default { version: 1.2, alchemyKey: "" }
\* is taken.
DefaultOptions == [version |-> "1.2", alchemyKey |-> EMPTY, strict |-> NULL]

ConstructorArguments ==
    { DefaultOptions,
      [version |-> "1.2", alchemyKey |-> ALCHEMY, strict |-> NULL],
      [version |-> "1.2", alchemyKey |-> ALCHEMY, strict |-> <<"true">>],
      [version |-> "1.2", alchemyKey |-> ALCHEMY, strict |-> <<"false">>],
      [version |-> "1.2", alchemyKey |-> EMPTY, strict |-> <<"true">>],
      [version |-> "1.2", alchemyKey |-> NULL, strict |-> NULL],
      [version |-> "1.2", alchemyKey |-> NULL, strict |-> <<"true">>],
      [version |-> "1.1", alchemyKey |-> ALCHEMY, strict |-> NULL] }

\* The constructor: this.options = { strict: false, allowNull: false,
\* customMessages: {}, ...options }.
constructorOptions(arg) ==
    [strict |-> arg.strict = <<"true">>,
     allowNull |-> FALSE,
     version |-> arg.version,
     alchemyKey |-> arg.alchemyKey]

\* What a method call comes to: it throws (thrown), it returns null (null),
\* or it returns a promise that is fulfilled with a result (returned) or
\* rejected (rejected).
Outcome(outcome, result) == [outcome |-> outcome, result |-> result]

NoResult == [successful |-> FALSE]

\* The module function verifyRevision on a revision object: without
\* revision.content, verifyFileUtil reads a property of undefined.
verifyRevisionPromise(input, alchemyKey, led) ==
    IF ~input.has_content THEN Outcome("rejected", NoResult)
    ELSE Outcome("returned", verifyRevision(input.revision, alchemyKey, led))

\* The module function verifyWitness: verifyWitnessUtil is not in a try block.
verifyWitnessPromise(witness, verification_hash, doVerifyMerkleProof, alchemyKey, led) ==
    LET r == verifyWitnessUtil(witness, verification_hash, doVerifyMerkleProof,
                               alchemyKey, led)
    IN  IF r.thrown THEN Outcome("rejected", NoResult)
        ELSE Outcome("returned", available(r.ok, r.message))

\* The module function verifyAquaChain: it awaits verifyRevision for every
\* revision, then aggregates.
verifyAquaChainPromise(inputs, alchemyKey, led) ==
    LET promises == [i \in DOMAIN inputs |->
                        verifyRevisionPromise(inputs[i], alchemyKey, led)]
        results == [i \in DOMAIN inputs |-> promises[i].result]
    IN  IF \E i \in DOMAIN inputs : promises[i].outcome = "rejected"
        THEN Outcome("rejected", NoResult)
        ELSE Outcome("returned",
                     [successful |-> hashChainSuccessful(results),
                      revisionResults |-> results])

\* The guard the three methods start with.
alchemyKeyNotSet(opts) == opts.alchemyKey = EMPTY

\* AquaVerifier.verifyRevision(revision)
AquaVerifier_verifyRevision(opts, input, led) ==
    IF alchemyKeyNotSet(opts) THEN Outcome("thrown", NoResult)
    ELSE IF opts.version = "1.2"
    THEN verifyRevisionPromise(input, opts.alchemyKey, led)
    ELSE Outcome("null", NoResult)

\* AquaVerifier.verifyWitness(witness, verification_hash, doVerifyMerkleProof)
AquaVerifier_verifyWitness(opts, witness, verification_hash, doVerifyMerkleProof, led) ==
    IF alchemyKeyNotSet(opts) THEN Outcome("thrown", NoResult)
    ELSE IF opts.version = "1.2"
    THEN verifyWitnessPromise(witness, verification_hash, doVerifyMerkleProof,
                              opts.alchemyKey, led)
    ELSE Outcome("null", NoResult)

\* AquaVerifier.verifyAquaChain(hashChain)
AquaVerifier_verifyAquaChain(opts, inputs, led) ==
    IF alchemyKeyNotSet(opts) THEN Outcome("thrown", NoResult)
    ELSE IF opts.version = "1.2"
    THEN verifyAquaChainPromise(inputs, opts.alchemyKey, led)
    ELSE Outcome("null", NoResult)

\* The revisions the methods are called with: one of every kind, first of
\* its chain or second after a plain revision, with the ledger that holds
\* its witness transaction; has_content is FALSE for a revision object
\* without its content.
RevisionInput(opt, second, has_content) ==
    LET ch == IF second THEN <<MakeRevision(<<>>, Opt(TRUE, "none", "none", "none", "tip"))>>
              ELSE <<>>
        rev == MakeRevision(ch, opt)
    IN  [revision |-> rev, has_content |-> has_content, opt |-> opt,
         ledger |-> IF opt.wit = "none" \/ opt.led = "notfound" THEN <<>>
                    ELSE with0x(rev.witness_event_transaction_hash)
                             :> MakeTransaction(rev, opt.led)]

RevisionInputs ==
    { RevisionInput(opt, second, has_content) :
          opt \in AllKinds, second \in BOOLEAN, has_content \in BOOLEAN }

NoCall ==
    [method |-> "none", outcome |-> "none", result |-> NoResult, inputs |-> <<>>]

CallOf(method, inputs, r) ==
    [method |-> method, outcome |-> r.outcome, result |-> r.result,
     inputs |-> inputs]

InitA ==
    /\ options = constructorOptions(DefaultOptions)
    /\ call = NoCall

\* new AquaVerifier(options)
Construct ==
    /\ \E arg \in ConstructorArguments : options' = constructorOptions(arg)
    /\ call' = NoCall
    /\ UNCHANGED othersA

\* One method call on the verifier that was constructed.
CallVerifyRevision ==
    /\ call = NoCall
    /\ \E input \in RevisionInputs :
          call' = CallOf("verifyRevision", <<input>>,
                         AquaVerifier_verifyRevision(options, input, input.ledger))
    /\ UNCHANGED options
    /\ UNCHANGED othersA

CallVerifyWitness ==
    /\ call = NoCall
    /\ \E input \in RevisionInputs :
          /\ input.revision.has_witness
          /\ input.has_content
          /\ call' = CallOf("verifyWitness", <<input>>,
                            AquaVerifier_verifyWitness(
                                options, input.revision,
                                orEmpty(input.revision.previous_verification_hash),
                                Len(input.revision.structured_merkle_proof) > 1,
                                input.ledger))
    /\ UNCHANGED options
    /\ UNCHANGED othersA

\* The chains verifyAquaChain is called with: one or two revisions without
\* a witness.
ChainInputs ==
    LET firsts == {RevisionInput(opt, FALSE, c) : opt \in ChainKinds, c \in BOOLEAN}
        seconds == {RevisionInput(opt, TRUE, c) : opt \in ChainKinds, c \in BOOLEAN}
    IN  {<<f>> : f \in firsts}
        \cup {<<f, g>> : f \in {RevisionInput(Opt(TRUE, "none", "none", "none", "tip"),
                                              FALSE, TRUE)},
                         g \in seconds}

CallVerifyChain ==
    /\ call = NoCall
    /\ \E inputs \in ChainInputs :
          call' = CallOf("verifyAquaChain", inputs,
                         AquaVerifier_verifyAquaChain(options, inputs, <<>>))
    /\ UNCHANGED options
    /\ UNCHANGED othersA

NextVerifier ==
    \/ Construct
    \/ CallVerifyRevision
    \/ CallVerifyWitness
    \/ CallVerifyChain

-----------------------------------------------------------------------------
(* C22: the three methods need an Alchemy key                              *)

KeyedMethods == {"verifyRevision", "verifyWitness", "verifyAquaChain"}

\* C22: verifyRevision, verifyWitness and verifyAquaChain throw, before any
\* verification, whenever the options hold no Alchemy key, be it empty or
\* absent; without a key no result is returned.
C22_KeyRequired ==
    (call.method \in KeyedMethods /\ options.alchemyKey \in {EMPTY, NULL}) =>
        call.outcome = "thrown"

\* What holds: with the key "" the three methods throw.
C22_EmptyKeyThrows ==
    (call.method \in KeyedMethods /\ options.alchemyKey = EMPTY) =>
        call.outcome = "thrown"

\* With the key absent a revision is verified and found successful.
C22_NoPassWithoutKey ==
    (call.method \in KeyedMethods /\ options.alchemyKey \in {EMPTY, NULL}) =>
        ~(call.outcome = "returned" /\ call.result.successful)

-----------------------------------------------------------------------------
(* C23: the option strict                                                  *)

HasMissingSubResult(r) == \E sub \in SubResults(r) : sub.status = "MISSING"

\* C23: with strict = true a revision with a MISSING sub-result is reported
\* as not successful; with strict = false the MISSING sub-results do not
\* count: the revision is successful iff every available sub-result is.
C23_StrictDemotesMissing ==
    (call.method = "verifyRevision" /\ call.outcome = "returned") =>
        /\ (options.strict /\ HasMissingSubResult(call.result)) =>
               ~call.result.successful
        /\ ~options.strict =>
               (call.result.successful <=> ~HasFailedSubResult(call.result))

\* What holds: strict is never read; the result is the same with it.
C23_StrictIgnored ==
    (call.method = "verifyRevision" /\ call.outcome = "returned") =>
        (call.result.successful <=> ~HasFailedSubResult(call.result))

-----------------------------------------------------------------------------
(* C24: failures are values                                                *)

\* C24: with a key and version 1.2, verifyRevision and verifyAquaChain
\* return a result record for any revision data, and never throw.
C24_NeverRaised ==
    (/\ call.method \in {"verifyRevision", "verifyAquaChain"}
     /\ options.alchemyKey = ALCHEMY
     /\ options.version = "1.2") =>
        call.outcome = "returned"

\* What holds: a revision object that has its content gets a result record,
\* whatever fails in it.
C24_ReturnedWhenContentPresent ==
    (/\ call.method \in {"verifyRevision", "verifyAquaChain"}
     /\ options.alchemyKey = ALCHEMY
     /\ options.version = "1.2"
     /\ \A i \in DOMAIN call.inputs : call.inputs[i].has_content) =>
        call.outcome = "returned"

\* The legacy verifyPage does not throw.
C24_LegacyNeverRaised == lpc # "thrown"

-----------------------------------------------------------------------------
(* src/notarize.js: two runs of createNewRevision on the same inputs       *)

\* prepareNonce: 32 random bytes; two of the values it can return.
RandomNonces == {<<"n1">>, <<"n2">>}

\* What a run is given: the kind of the revision, the parent verification
\* hash, the timestamp, the hash mode and the payload (the bytes of the file
\* or form, or the method of signing or witnessing).
BuilderInput(revisionType, parent, enableScalar, args, fileContent) ==
    [revisionType |-> revisionType, parent |-> parent,
     timestamp |-> <<"t1">>, enableScalar |-> enableScalar, args |-> args,
     fileContent |-> fileContent]

BuilderInputs ==
    { BuilderInput(mainRevisionType(args), parent, enableScalar, args, fileContent) :
          args \in { Args("", "", "", "", FALSE, FALSE),
                     Args("", "", "", "", FALSE, TRUE),
                     Args("", "", "", Filename, FALSE, FALSE),
                     Args("cli", "", "", "", FALSE, FALSE),
                     Args("", "nostr", "", "", FALSE, FALSE),
                     Args("", "", LinkedFile, "", FALSE, FALSE) },
          parent \in {EMPTY, <<"0x", "p">>},
          enableScalar \in BOOLEAN,
          fileContent \in {<<"a">>, <<"{", "name", ":", "x", "}">>} }

\* createNewRevision from its start to its end, the await included, on an
\* aqua object without revisions whose lastRevisionHash is the parent: the
\* revision it inserted, or NULL when it ended the process.
builtRevision(input, nonce) ==
    LET r == createNewRevision(createNewAquaObject, input.parent, input.timestamp,
                               input.revisionType, input.enableScalar, input.args,
                               input.fileContent, nonce, Linked)
        p == [NoPending EXCEPT !.args = input.args,
                               !.timestamp = input.timestamp,
                               !.revisionType = input.revisionType,
                               !.enableScalar = input.enableScalar,
                               !.previousVerificationHash_ = input.parent]
        done == IF r.outcome = "await"
                THEN resumeNewRevision(r.aquaObject, p).aquaObject
                ELSE r.aquaObject
    IN  IF done.revisions = <<>> THEN NULL ELSE done.revisions[1]

InitD == runs = <<>>

\* A run of createNewRevision; the nonce is what prepareNonce returns in it.
BuilderFirstRun ==
    /\ runs = <<>>
    /\ \E input \in BuilderInputs, nonce \in RandomNonces :
          runs' = <<[input |-> input, nonce |-> nonce,
                     revision |-> builtRevision(input, nonce)]>>
    /\ UNCHANGED othersD

\* A second run, given what the first was given.
BuilderSecondRun ==
    /\ Len(runs) = 1
    /\ \E nonce \in RandomNonces :
          runs' = Append(runs, [input |-> runs[1].input, nonce |-> nonce,
                                revision |-> builtRevision(runs[1].input, nonce)])
    /\ UNCHANGED othersD

NextBuilder ==
    \/ BuilderFirstRun
    \/ BuilderSecondRun

-----------------------------------------------------------------------------
(* C25: the builder is deterministic                                       *)

\* C25: two runs of createNewRevision given the same kind, parent, timestamp
\* and payload produce the same revision under the same verification hash.
C25_Deterministic ==
    (Len(runs) = 2) => runs[1].revision = runs[2].revision

\* What holds: the two runs agree when prepareNonce returned the same bytes,
\* and for the kinds that have no nonce.
C25_DeterministicButForNonce ==
    (/\ Len(runs) = 2
     /\ \/ runs[1].nonce = runs[2].nonce
        \/ runs[1].input.revisionType \notin {"file", "form"}) =>
        runs[1].revision = runs[2].revision

-----------------------------------------------------------------------------
(* C26: the status the legacy verifyPage returns                           *)

\* The request could not be served: the title has an underscore, or the
\* list of the revisions was not fetched.
RequestFailed ==
    titleIncludesUnderscore(request.title) \/ request.listFetch # "ok"

\* What the detail of a revision says when verifyRevision found the revision
\* correct (its isCorrect): the hashes agree, and a signed revision has a
\* valid signature and no inconsistent witness.
DetailCorrect(detail) ==
    /\ detail.error_message = NULL
    /\ detail.verification_status = "VERIFIED"
    /\ detail.is_signed =>
          (detail.valid_signature /\ detail.witness_status # "INCONSISTENT")

\* Every revision of the page was verified and found correct.
EveryRevisionCorrect ==
    /\ count = Len(page)
    /\ Len(details) = Len(page)
    /\ \A i \in DOMAIN details :
          /\ details[i].rev_id = page[i].rev_id
          /\ DetailCorrect(details[i])

C26_WitnessNoRecord == lpc = "done" /\ status = "NORECORD"

C26_WitnessInvalid ==
    /\ lpc = "done"
    /\ status = "INVALID"
    /\ Len(details) = 2
    /\ Len(page) = 3

C26_WitnessError ==
    /\ lpc = "done"
    /\ status = "ERROR"
    /\ request.listFetch = "refused"
    /\ Len(page) = 2

-----------------------------------------------------------------------------
(* C27: an inconsistent witness                                            *)

\* C27: the legacy verifyRevision finds no revision correct whose witness
\* status is INCONSISTENT, signed or not: no such revision is counted, and
\* verifyPage never returns VERIFIED for a page that holds one.
C27_InconsistentNeverCorrect ==
    /\ \A i \in DOMAIN details :
          (i <= count) => details[i].witness_status # "INCONSISTENT"
    /\ (lpc = "done" /\ status = "VERIFIED") =>
           \A i \in DOMAIN details : details[i].witness_status # "INCONSISTENT"

\* What holds: a signed revision with an inconsistent witness is not correct.
C27_SignedInconsistentNeverCorrect ==
    \A i \in DOMAIN details :
        (i <= count /\ details[i].is_signed) =>
            details[i].witness_status # "INCONSISTENT"

-----------------------------------------------------------------------------
(* C28: when the aqua file is written in a signing or witnessing run       *)

\* A run on one chain that was there has made a signature or a witness
\* revision, and has ended.
SignedOrWitnessed ==
    /\ nhist.op = "prepared"
    /\ nhist.why \in {"signature", "witness"}
    /\ nhist.before[Filename].exists

\* C28: after a run that appends a signature or a witness revision to a chain
\* that was there, the aqua file holds the chain it held before with the new
\* revision as its last entry, parented at the tip it had before.
C28_NewRevisionPersisted ==
    SignedOrWitnessed =>
        LET before == nhist.before[Filename].revisions
            after == disk[Filename].revisions
        IN  /\ Len(after) = Len(before) + 1
            /\ SubSeq(after, 1, Len(before)) = before
            /\ after[Len(after)].revision_type = nhist.why
            /\ after[Len(after)].previous_verification_hash = lastKey(before)

\* What holds: the file is what it was before the run, and the new revision,
\* parented at the tip the file has, is in the aqua object of the process
\* only.
C28_NewRevisionInMemoryOnly ==
    SignedOrWitnessed =>
        /\ disk = nhist.before
        /\ RevisionMade.revision_type = nhist.why
        /\ RevisionMade.previous_verification_hash
               = lastKey(disk[Filename].revisions)
        /\ \A i \in DOMAIN disk[Filename].revisions :
               disk[Filename].revisions[i].key # RevisionMade.key

-----------------------------------------------------------------------------
(* C29: a witness over several chains, when the run has stopped            *)

\* The writes of a run over two chains: none fails (0), or the write of the
\* first or of the second file fails.
WriteFailures == 0..2

\* The command line that builds the chain of the file.
AtomicInvocations == { Args("", "", "", "", FALSE, FALSE) }

AtomicGenesis == GenesisRun(AtomicInvocations)

AtomicAppend == AppendRun(AtomicInvocations)

AtomicMultiStart == MultiStartRun(MultiInvocations)

AtomicMultiResume == MultiResumeRun(WriteFailures)

NextAtomic ==
    \/ AtomicGenesis
    \/ AtomicAppend
    \/ AtomicMultiStart
    \/ AtomicMultiResume

\* The run over several chains has stopped: prepareWitness failed, the loop
\* wrote every file, or a write failed within the loop.
MultiStopped == nhist.op \in {"multiFailed", "multiWitness", "multiWriteFailed"}

\* The aqua file f holds the chain it held before the run and, as its last
\* revision, a witness revision on the tip it had.
HasNewWitness(f) ==
    LET before == nhist.before[f].revisions
        after == disk[f].revisions
    IN  /\ Len(after) = Len(before) + 1
        /\ SubSeq(after, 1, Len(before)) = before
        /\ after[Len(after)].revision_type = "witness"
        /\ after[Len(after)].previous_verification_hash = lastKey(before)

\* C29: whenever a witness over several chains has stopped, normally or
\* because a write failed within the loop over the chains, either every
\* persisted chain holds the new witness revision or none of them does.
C29_AllOrNothing ==
    MultiStopped =>
        \/ \A i \in DOMAIN nhist.files : HasNewWitness(nhist.files[i])
        \/ \A i \in DOMAIN nhist.files :
               disk[nhist.files[i]] = nhist.before[nhist.files[i]]

\* What holds: all or nothing when no write fails, and when a write fails the
\* files before the failing one hold the new witness revision.
C29_AllOrNothingWithoutWriteFailure ==
    /\ (nhist.op = "multiWitness") =>
           \A i \in DOMAIN nhist.files : HasNewWitness(nhist.files[i])
    /\ (nhist.op = "multiFailed") => disk = nhist.before
    /\ (nhist.op = "multiWriteFailed") =>
           \E failsAt \in DOMAIN nhist.files :
               \A i \in DOMAIN nhist.files :
                   IF i < failsAt THEN HasNewWitness(nhist.files[i])
                   ELSE disk[nhist.files[i]] = nhist.before[nhist.files[i]]

-----------------------------------------------------------------------------
(* src/notarize.js: doSignMetamask                                         *)

maxAttempts == 24

\* What the page POSTs after personal_sign: a signature recoverPublicKey
\* accepts, or one it throws on.
Signatures == {"wellFormed", "malformed"}

\* `content.signature` is truthy.
hasSignature(content_) == content_ # "none"

\* (mutant) the catch clause rethrows without closing the server.
serverAfterCatch_leftOpen(server_) == server_

\* The catch clause: server.close(), then throw.
serverAfterCatch(server_) == "closed"

InitM ==
    /\ mpc = "idle"
    /\ attempts = 0
    /\ server = "none"
    /\ posted = "none"
    /\ polled = "none"
    /\ polls = 0
    /\ signatureReturned = "none"

\* doSignMetamask up to its first await: the server is made and listens, and
\* the loop begins with the fetch of /result.  When the port cannot be
\* bound the server emits "error", which nothing listens to: the process
\* ends with the server not listening.
MetamaskCall ==
    /\ mpc = "idle"
    /\ \E bound \in BOOLEAN :
          IF bound
          THEN /\ server' = "listening"
               /\ mpc' = IF 0 < maxAttempts THEN "fetch" ELSE "timedOut"
          ELSE /\ server' = "none"
               /\ mpc' = "crashed"
    /\ attempts' = 0
    /\ UNCHANGED <<posted, polled, polls, signatureReturned>>
    /\ UNCHANGED othersM

\* The page in the browser gets the signature from MetaMask and POSTs it.
MetamaskPost ==
    /\ server = "listening"
    /\ posted = "none"
    /\ \E signature \in Signatures : posted' = signature
    /\ UNCHANGED <<mpc, attempts, server, polled, polls, signatureReturned>>
    /\ UNCHANGED othersM

\* `await fetch(serverUrl + "/result")` settles: the server answers with
\* what was posted, or fetch rejects and the catch clause runs.
MetamaskFetch ==
    /\ mpc = "fetch"
    /\ \E answered \in BOOLEAN :
          IF answered
          THEN /\ polled' = posted
               /\ polls' = polls + 1
               /\ mpc' = "json"
               /\ UNCHANGED server
          ELSE /\ server' = serverAfterCatch(server)
               /\ mpc' = "thrown"
               /\ UNCHANGED <<polled, polls>>
    /\ UNCHANGED <<attempts, posted, signatureReturned>>
    /\ UNCHANGED othersM

\* `await response.json()` settles, and the loop body runs to its return or
\* to its sleep: a signature is recovered and returned (or recoverPublicKey
\* throws); without a signature attempts is incremented.
MetamaskJson ==
    /\ mpc = "json"
    /\ \E parsed \in BOOLEAN :
          CASE ~parsed ->
                 /\ server' = serverAfterCatch(server)
                 /\ mpc' = "thrown"
                 /\ UNCHANGED <<attempts, signatureReturned>>
            [] parsed /\ hasSignature(polled) /\ polled = "wellFormed" ->
                 /\ server' = "closed"
                 /\ mpc' = "returned"
                 /\ signatureReturned' = polled
                 /\ UNCHANGED attempts
            [] parsed /\ hasSignature(polled) /\ polled # "wellFormed" ->
                 /\ server' = serverAfterCatch(server)
                 /\ mpc' = "thrown"
                 /\ UNCHANGED <<attempts, signatureReturned>>
            [] OTHER ->
                 /\ attempts' = attempts + 1
                 /\ mpc' = "sleep"
                 /\ UNCHANGED <<server, signatureReturned>>
    /\ UNCHANGED <<posted, polled, polls>>
    /\ UNCHANGED othersM

\* `await sleep(5000)` settles and the loop condition is tested: the next
\* fetch, or the timeout: server.close() and process.exit(1).
MetamaskWake ==
    /\ mpc = "sleep"
    /\ IF attempts < maxAttempts
       THEN /\ mpc' = "fetch"
            /\ UNCHANGED server
       ELSE /\ mpc' = "timedOut"
            /\ server' = "closed"
    /\ UNCHANGED <<attempts, posted, polled, polls, signatureReturned>>
    /\ UNCHANGED othersM

NextMetamask ==
    \/ MetamaskCall
    \/ MetamaskPost
    \/ MetamaskFetch
    \/ MetamaskJson
    \/ MetamaskWake

-----------------------------------------------------------------------------
(* C30: the polling loop of doSignMetamask ends, with the server closed    *)

\* doSignMetamask has ended: by its return, by the timeout, by an exception.
MetamaskExited == mpc \in {"returned", "timedOut", "thrown", "crashed"}

\* How doSignMetamask has ended, if it has.
MetamaskExitsAsSpecified ==
    /\ attempts <= maxAttempts
    /\ polls <= maxAttempts
    /\ MetamaskExited => server # "listening"
    /\ (mpc \in {"returned", "timedOut", "thrown"}) => server = "closed"
    /\ (mpc = "returned") =>
           /\ signatureReturned = posted
           /\ signatureReturned \in Signatures
           /\ polls = attempts + 1
    /\ (mpc = "timedOut") =>
           /\ attempts = maxAttempts
           /\ polls = maxAttempts
           /\ signatureReturned = "none"
    /\ (mpc \in {"fetch", "sleep"}) => (polls = attempts /\ ~hasSignature(polled))

\* C30: the polling loop of doSignMetamask always ends: it returns the
\* signature at the first poll of /result that holds one, or, after 24 polls
\* without a signature, it reports the timeout and exits; and however it
\* ends (signature, timeout, exception), the local server has been closed.
C30_PollingEnds ==
    /\ []MetamaskExitsAsSpecified
    /\ (mpc # "idle") ~> MetamaskExited

\* The timeout after 24 polls, though the page has posted a signature in the
\* meantime; (the return of a signature after some polls is reached too).
C30_Witness ==
    /\ mpc = "timedOut"
    /\ polls = maxAttempts
    /\ server = "closed"
    /\ posted # "none"

C30_WitnessReturned ==
    /\ mpc = "returned"
    /\ polls = 3
    /\ server = "closed"

-----------------------------------------------------------------------------
(* Specifications                                                          *)

Init == InitV /\ InitL /\ InitN /\ InitA /\ InitD /\ InitM

\* AquaVerifier.verifyAquaChain on chains of up to MaxRev revisions.
SpecChain == Init /\ [][NextChain]_vars

\* AquaVerifier.verifyAquaChain on chains of every kind of revision, which
\* are then tampered with and verified again.
SpecTamper == Init /\ [][NextTamper]_vars

\* The legacy verifyPage against a MediaWiki server.
SpecLegacy == Init /\ [][NextLegacy]_vars

SpecNotarize == Init /\ [][NextNotarize]_vars

\* Runs of the command on one chain and witnesses over two chains.
SpecWitness == Init /\ [][NextWitness]_vars

\* Runs of the command with the options that select the hash mode.
SpecMode == Init /\ [][NextMode]_vars

\* The class AquaVerifier: its constructor and its three methods.
SpecVerifier == Init /\ [][NextVerifier]_vars

\* Two runs of createNewRevision on the same inputs.
SpecBuilder == Init /\ [][NextBuilder]_vars

\* Witnesses over two chains in which a write of an aqua file may fail.
SpecAtomic == Init /\ [][NextAtomic]_vars

\* doSignMetamask and the page that posts the signature.
SpecMetamask == Init /\ [][NextMetamask]_vars

\* The same, when every await of doSignMetamask settles: the fetch of
\* /result and the parsing of its answer resolve or reject, and the timer of
\* sleep fires.  Nothing makes the page post.
SpecMetamaskLive ==
    /\ SpecMetamask
    /\ WF_vars(MetamaskFetch)
    /\ WF_vars(MetamaskJson)
    /\ WF_vars(MetamaskWake)

====
